---- MODULE Spec2Model ----
(***************************************************************************)
(* Session establishment of the OPC UA client (client/client.go): Dial,    *)
(* Client.open, Close, Abort, and the identity-token construction with its *)
(* chunked RSA encryption.  Cryptography is symbolic: a signature is the   *)
(* record of who signed what under which scheme, a ciphertext block is the *)
(* record of the key, the padding and the bytes handed to the primitive.   *)
(***************************************************************************)
EXTENDS Integers, Sequences, FiniteSets, TLC

VARIABLES
    pc,                     \* position of Dial / Client.open
    cli,                    \* fields of the Client struct
    channel,                \* fields of the clientSecureChannel the client reads and writes
    endpoints,              \* res.Endpoints / orderedEndpoints of Dial
    localNonce,             \* local of open
    remoteNonce,            \* local of open
    createSessionRequest,   \* local of open
    createSessionResponse,  \* local of open
    clientSignature,        \* local of open
    tokenResult,            \* locals identityToken, identityTokenSignature of open
    activateSessionRequest, \* local of open
    readResponse,           \* local of open: the Results of the bootstrap Read
    steps,                  \* handshake steps in the order they ran
    wire,                   \* requests handed to the channel and what came back, in order
    openErr,                \* the error Client.open returned to Dial
    ret,                    \* what Dial returned: [returned, client, err]
    opts,                   \* what the options passed to Dial put into the client
    calls,                  \* the calls of Close on the client Dial returned, in order
    enc                     \* inputs and result of one identity-token encryption

vars == <<pc, cli, channel, endpoints, localNonce, remoteNonce, createSessionRequest,
          createSessionResponse, clientSignature, tokenResult, activateSessionRequest,
          readResponse,
          steps, wire, openErr, ret, opts, calls, enc>>

\* the locals of open
openLocals == <<localNonce, remoteNonce, createSessionRequest, createSessionResponse,
                clientSignature, tokenResult, activateSessionRequest, readResponse>>

----------------------------------------------------------------------------
(* Bounds of the model *)

MaxSecretLen == 90          \* longest password / token data, in bytes
MaxCalls == 1               \* calls of Close on one client during a Dial of any kind
MaxTeardownCalls == 2       \* calls of Close, CloseDeleteSubscriptions and Abort on one client
MaxTokenPolicies == 2       \* longest userIdentityTokens list of an endpoint

----------------------------------------------------------------------------
(* ua constants *)

SecurityPolicyURINone == "None"
SecurityPolicyURIBasic128Rsa15 == "Basic128Rsa15"
SecurityPolicyURIBasic256 == "Basic256"
SecurityPolicyURIBasic256Sha256 == "Basic256Sha256"
SecurityPolicyURIAes128Sha256RsaOaep == "Aes128Sha256RsaOaep"
SecurityPolicyURIAes256Sha256RsaPss == "Aes256Sha256RsaPss"
\* the sentinel is the empty URI: Dial with a certificate and no policy connects
SecurityPolicyURIBestAvailable == ""
\* a URI a server may advertise that is none of the above
SecurityPolicyURIOther == "Aes256Sha256nistP256"

RecognizedPolicyURIs ==
    { SecurityPolicyURINone, SecurityPolicyURIBasic128Rsa15,
      SecurityPolicyURIBasic256, SecurityPolicyURIBasic256Sha256,
      SecurityPolicyURIAes128Sha256RsaOaep, SecurityPolicyURIAes256Sha256RsaPss }

MessageSecurityModeInvalid == "Invalid"
MessageSecurityModeNone == "None"
MessageSecurityModeSign == "Sign"
MessageSecurityModeSignAndEncrypt == "SignAndEncrypt"

UserTokenTypeAnonymous == "Anonymous"
UserTokenTypeUserName == "UserName"
UserTokenTypeCertificate == "Certificate"
UserTokenTypeIssuedToken == "IssuedToken"

RsaSha1Signature == "RsaSha1Signature"
RsaSha256Signature == "RsaSha256Signature"
RsaPssSha256Signature == "RsaPssSha256Signature"
RsaV15KeyWrap == "RsaV15KeyWrap"
RsaOaepKeyWrap == "RsaOaepKeyWrap"
RsaOaepSha256KeyWrap == "RsaOaepSha256KeyWrap"

Nil == "nil"
BadSecurityModeRejected == "BadSecurityModeRejected"
BadCertificateInvalid == "BadCertificateInvalid"
BadApplicationSignatureInvalid == "BadApplicationSignatureInvalid"
BadIdentityTokenRejected == "BadIdentityTokenRejected"
\* the errors of the crypto/rsa primitives
EncryptError == "rsa: encryption error"
SignError == "rsa: signing error"

----------------------------------------------------------------------------
(* Symbolic RSA *)

\* the three padding/hash combinations of the signing switch
SchemeSha1Pkcs1v15 == "SHA1+PKCS1v15"
SchemeSha256Pkcs1v15 == "SHA256+PKCS1v15"
SchemeSha256Pss == "SHA256+PSS"
\* the three paddings of the encryption switch
PaddingPkcs1v15 == "PKCS1v15"
PaddingOaepSha1 == "OAEP-SHA1"
PaddingOaepSha256 == "OAEP-SHA256"

\* *rsa.PublicKey: whose key pair it is, the modulus size in bytes, and
\* whether the key passes the library's check of the public exponent.
NoKey == [owner |-> "", size |-> 0, usable |-> FALSE]
PublicKey(owner, size, usable) == [owner |-> owner, size |-> size, usable |-> usable]

NoSignature == [signer |-> "", scheme |-> "", data |-> <<>>]
\* rsa.SignPKCS1v15 / rsa.SignPSS over the hash of data, by the owner of a private key
RsaSign(signer, scheme, data) == [signer |-> signer, scheme |-> scheme, data |-> data]
\* rsa.VerifyPKCS1v15 / rsa.VerifyPSS: TRUE when no error is returned
RsaVerify(publickey, scheme, data, signature) ==
    /\ publickey.usable
    /\ signature = RsaSign(publickey.owner, scheme, data)

\* rsa.EncryptPKCS1v15 / rsa.EncryptOAEP: one ciphertext of publickey.Size() bytes
RsaEncrypt(publickey, padding, plainText) ==
    [key |-> publickey.owner, size |-> publickey.size, padding |-> padding, pt |-> plainText]
\* the matching private-key operation: the bytes that were handed to RsaEncrypt
RsaDecrypt(owner, padding, block) ==
    IF block.key = owner /\ block.padding = padding THEN block.pt ELSE <<>>

----------------------------------------------------------------------------
(* Identity-token encryption: the block the UserName and Issued cases repeat *)

OverheadPkcs1v15 == 11
OverheadOaepSha1 == 42
OverheadOaepSha256 == 66

Min(a, b) == IF a < b THEN a ELSE b

\* binary.Write(plainBuf, binary.LittleEndian, uint32(n)), n below 2^31
LittleEndianUint32(n) == [i \in 1..4 |-> (n \div (256 ^ (i - 1))) % 256]

\* the length prefix counting its own four bytes
WritePlainBufCountingPrefix(secret, nonce) ==
    LittleEndianUint32(4 + Len(secret) + Len(nonce)) \o secret \o nonce

\* plainBuf after the length, the secret and the server nonce are written
WritePlainBuf(secret, nonce) ==
    LittleEndianUint32(Len(secret) + Len(nonce)) \o secret \o nonce

\* plainText := make([]byte, publickey.Size()-overhead)
MakePlainText(publickey, overhead) == [i \in 1..(publickey.size - overhead) |-> 0]

\* plainBuf.Read(plainText) with the count it returns ignored: the first
\* min(len(plainBuf), len(plainText)) bytes of plainText are overwritten, the
\* others keep what the previous iteration (or make) left there.
ReadInto(plainBuf, plainText) ==
    [i \in 1..Len(plainText) |->
        IF i <= Min(Len(plainBuf), Len(plainText)) THEN plainBuf[i] ELSE plainText[i]]

\* what plainBuf still holds after that Read
AfterRead(plainBuf, plainText) ==
    SubSeq(plainBuf, Min(Len(plainBuf), Len(plainText)) + 1, Len(plainBuf))

\* the loop ended by a short Read instead of by an empty plainBuf
RECURSIVE EncryptLoopUntilShortRead(_, _, _, _, _)
EncryptLoopUntilShortRead(plainBuf, plainText, cipherBuf, publickey, padding) ==
    IF ~publickey.usable
    THEN [err |-> EncryptError, cipherBytes |-> <<>>, buffers |-> "held"]
    ELSE LET written == Append(cipherBuf,
                               RsaEncrypt(publickey, padding, ReadInto(plainBuf, plainText)))
         IN  IF Len(plainBuf) < Len(plainText)
             THEN [err |-> Nil, cipherBytes |-> written, buffers |-> "reset"]
             ELSE EncryptLoopUntilShortRead(AfterRead(plainBuf, plainText),
                                            ReadInto(plainBuf, plainText),
                                            written, publickey, padding)

\* for plainBuf.Len() > 0 { Read; Encrypt; if err return err; cipherBuf.Write }
\* followed by the copy into cipherBytes and the two Reset calls.
RECURSIVE EncryptLoop(_, _, _, _, _)
EncryptLoop(plainBuf, plainText, cipherBuf, publickey, padding) ==
    IF Len(plainBuf) = 0
    THEN [err |-> Nil, cipherBytes |-> cipherBuf, buffers |-> "reset"]
    ELSE IF ~publickey.usable
    THEN [err |-> EncryptError, cipherBytes |-> <<>>, buffers |-> "held"]
    ELSE EncryptLoop(AfterRead(plainBuf, plainText),
                     ReadInto(plainBuf, plainText),
                     Append(cipherBuf,
                            RsaEncrypt(publickey, padding, ReadInto(plainBuf, plainText))),
                     publickey, padding)

\* the case with the nil check placed after the two buffers are taken from the pool
EncryptSecretNilCheckAfterBuffers(secret, nonce, publickey, overhead, padding) ==
    IF publickey = NoKey
    THEN [err |-> BadIdentityTokenRejected, cipherBytes |-> <<>>, buffers |-> "held"]
    ELSE EncryptLoop(WritePlainBuf(secret, nonce), MakePlainText(publickey, overhead),
                     <<>>, publickey, padding)

\* one case of the switch on secPolicyURI, from the nil check to the Reset calls
EncryptSecret(secret, nonce, publickey, overhead, padding) ==
    IF publickey = NoKey
    THEN [err |-> BadIdentityTokenRejected, cipherBytes |-> <<>>, buffers |-> "none"]
    ELSE EncryptLoop(WritePlainBuf(secret, nonce), MakePlainText(publickey, overhead),
                     <<>>, publickey, padding)

\* the server's side: every block decrypted with the private key, in order
RECURSIVE DecryptBlocks(_, _, _)
DecryptBlocks(owner, padding, blocks) ==
    IF Len(blocks) = 0 THEN <<>>
    ELSE RsaDecrypt(owner, padding, Head(blocks)) \o DecryptBlocks(owner, padding, Tail(blocks))

----------------------------------------------------------------------------
(* Identity token construction: the type switch on ch.userIdentity *)

\* user identities
AnonymousIdentity == [type |-> "Anonymous", userName |-> "", secret |-> <<>>, key |-> NoKey]
UserNameIdentity(name, password) ==
    [type |-> "UserName", userName |-> name, secret |-> password, key |-> NoKey]
X509Identity(certificate, key) ==
    [type |-> "X509", userName |-> "", secret |-> certificate, key |-> key]
IssuedIdentity(tokenData) ==
    [type |-> "Issued", userName |-> "", secret |-> tokenData, key |-> NoKey]

UserTokenPolicy(id, type, uri) ==
    [policyID |-> id, tokenType |-> type, securityPolicyURI |-> uri]

\* the contents of a ByteString field of a token: plain bytes or RSA blocks
PlainBytes(b) == [plain |-> b, cipher |-> <<>>]
CipherBytes(blocks) == [plain |-> <<>>, cipher |-> blocks]

NoToken == [type |-> "", policyID |-> <<>>, userName |-> "",
            data |-> PlainBytes(<<>>), encryptionAlgorithm |-> ""]
AnonymousIdentityToken(id) == [NoToken EXCEPT !.type = "Anonymous", !.policyID = id]
UserNameIdentityToken(name, password, alg, id) ==
    [type |-> "UserName", policyID |-> id, userName |-> name,
     data |-> password, encryptionAlgorithm |-> alg]
X509IdentityToken(certificateData, id) ==
    [NoToken EXCEPT !.type = "X509", !.policyID = id, !.data = PlainBytes(certificateData)]
IssuedIdentityToken(tokenData, alg, id) ==
    [type |-> "Issued", policyID |-> id, userName |-> "",
     data |-> tokenData, encryptionAlgorithm |-> alg]

\* ua.SignatureData
SignatureData(signature, algorithm) == [signature |-> signature, algorithm |-> algorithm]
EmptySignatureData == SignatureData(NoSignature, "")

\* what the construction hands back to open: an error, or the token and its signature
TokenResult(err, token, signature, buffers) ==
    [err |-> err, identityToken |-> token, identityTokenSignature |-> signature,
     buffers |-> buffers]
TokenError(err, buffers) == TokenResult(err, NoToken, EmptySignatureData, buffers)

\* for _, t := range ch.userTokenPolicies { if t.TokenType == type { tokenPolicy = &t; break } }
\* the index of the entry taken, 0 for tokenPolicy == nil
RECURSIVE FindTokenPolicyFrom(_, _, _)
FindTokenPolicyFrom(userTokenPolicies, type, i) ==
    IF i > Len(userTokenPolicies) THEN 0
    ELSE IF userTokenPolicies[i].tokenType = type THEN i
    ELSE FindTokenPolicyFrom(userTokenPolicies, type, i + 1)

\* the loop without its break: the last matching entry is kept
RECURSIVE FindLastTokenPolicyFrom(_, _, _)
FindLastTokenPolicyFrom(userTokenPolicies, type, i) ==
    IF i < 1 THEN 0
    ELSE IF userTokenPolicies[i].tokenType = type THEN i
    ELSE FindLastTokenPolicyFrom(userTokenPolicies, type, i - 1)

FindLastTokenPolicy(userTokenPolicies, type) ==
    FindLastTokenPolicyFrom(userTokenPolicies, type, Len(userTokenPolicies))

FindTokenPolicy(userTokenPolicies, type) == FindTokenPolicyFrom(userTokenPolicies, type, 1)

\* secPolicyURI := tokenPolicy.SecurityPolicyURI; if secPolicyURI == "" { secPolicyURI = ch.securityPolicyURI }
\* the channel's policy used whatever the user-token policy names
EffectivePolicyURIOfChannel(tokenPolicy, securityPolicyURI) == securityPolicyURI

EffectivePolicyURI(tokenPolicy, securityPolicyURI) ==
    IF tokenPolicy.securityPolicyURI = "" THEN securityPolicyURI
    ELSE tokenPolicy.securityPolicyURI

\* the switch with Basic256 moved to the PKCS#1 v1.5 case
UserNameCaseBasic256AsV15(secPolicyURI) ==
    CASE secPolicyURI \in { SecurityPolicyURIBasic128Rsa15, SecurityPolicyURIBasic256 } ->
            [encrypt |-> TRUE, overhead |-> OverheadPkcs1v15,
             padding |-> PaddingPkcs1v15, algorithm |-> RsaV15KeyWrap]
      [] secPolicyURI \in { SecurityPolicyURIBasic256Sha256,
                            SecurityPolicyURIAes128Sha256RsaOaep } ->
            [encrypt |-> TRUE, overhead |-> OverheadOaepSha1,
             padding |-> PaddingOaepSha1, algorithm |-> RsaOaepKeyWrap]
      [] secPolicyURI = SecurityPolicyURIAes256Sha256RsaPss ->
            [encrypt |-> TRUE, overhead |-> OverheadOaepSha256,
             padding |-> PaddingOaepSha256, algorithm |-> RsaOaepSha256KeyWrap]
      [] OTHER ->
            [encrypt |-> FALSE, overhead |-> 0, padding |-> "", algorithm |-> ""]

\* the cases of the switch on secPolicyURI in the UserName branch:
\* whether the password is encrypted, and with which overhead, padding and URI
UserNameCase(secPolicyURI) ==
    CASE secPolicyURI = SecurityPolicyURIBasic128Rsa15 ->
            [encrypt |-> TRUE, overhead |-> OverheadPkcs1v15,
             padding |-> PaddingPkcs1v15, algorithm |-> RsaV15KeyWrap]
      [] secPolicyURI \in { SecurityPolicyURIBasic256, SecurityPolicyURIBasic256Sha256,
                            SecurityPolicyURIAes128Sha256RsaOaep } ->
            [encrypt |-> TRUE, overhead |-> OverheadOaepSha1,
             padding |-> PaddingOaepSha1, algorithm |-> RsaOaepKeyWrap]
      [] secPolicyURI = SecurityPolicyURIAes256Sha256RsaPss ->
            [encrypt |-> TRUE, overhead |-> OverheadOaepSha256,
             padding |-> PaddingOaepSha256, algorithm |-> RsaOaepSha256KeyWrap]
      [] OTHER ->
            [encrypt |-> FALSE, overhead |-> 0, padding |-> "", algorithm |-> ""]

\* the same switch in the Issued branch
\* the switch of the Issued branch without its case for Aes256Sha256RsaPss
IssuedCaseWithoutPss(secPolicyURI) ==
    CASE secPolicyURI = SecurityPolicyURIBasic128Rsa15 ->
            [encrypt |-> TRUE, overhead |-> OverheadPkcs1v15,
             padding |-> PaddingPkcs1v15, algorithm |-> RsaV15KeyWrap]
      [] secPolicyURI \in { SecurityPolicyURIBasic256, SecurityPolicyURIBasic256Sha256,
                            SecurityPolicyURIAes128Sha256RsaOaep } ->
            [encrypt |-> TRUE, overhead |-> OverheadOaepSha1,
             padding |-> PaddingOaepSha1, algorithm |-> RsaOaepKeyWrap]
      [] OTHER ->
            [encrypt |-> FALSE, overhead |-> 0, padding |-> "", algorithm |-> ""]

IssuedCase(secPolicyURI) ==
    CASE secPolicyURI = SecurityPolicyURIBasic128Rsa15 ->
            [encrypt |-> TRUE, overhead |-> OverheadPkcs1v15,
             padding |-> PaddingPkcs1v15, algorithm |-> RsaV15KeyWrap]
      [] secPolicyURI \in { SecurityPolicyURIBasic256, SecurityPolicyURIBasic256Sha256,
                            SecurityPolicyURIAes128Sha256RsaOaep } ->
            [encrypt |-> TRUE, overhead |-> OverheadOaepSha1,
             padding |-> PaddingOaepSha1, algorithm |-> RsaOaepKeyWrap]
      [] secPolicyURI = SecurityPolicyURIAes256Sha256RsaPss ->
            [encrypt |-> TRUE, overhead |-> OverheadOaepSha256,
             padding |-> PaddingOaepSha256, algorithm |-> RsaOaepSha256KeyWrap]
      [] OTHER ->
            [encrypt |-> FALSE, overhead |-> 0, padding |-> "", algorithm |-> ""]

\* the switch on secPolicyURI in the X509 branch: scheme and algorithm URI of
\* the proof of possession, sign = FALSE for the default case
X509Case(secPolicyURI) ==
    CASE secPolicyURI \in { SecurityPolicyURIBasic128Rsa15, SecurityPolicyURIBasic256 } ->
            [sign |-> TRUE, scheme |-> SchemeSha1Pkcs1v15, algorithm |-> RsaSha1Signature]
      [] secPolicyURI \in { SecurityPolicyURIBasic256Sha256,
                            SecurityPolicyURIAes128Sha256RsaOaep } ->
            [sign |-> TRUE, scheme |-> SchemeSha256Pkcs1v15, algorithm |-> RsaSha256Signature]
      [] secPolicyURI = SecurityPolicyURIAes256Sha256RsaPss ->
            [sign |-> TRUE, scheme |-> SchemeSha256Pss, algorithm |-> RsaPssSha256Signature]
      [] OTHER ->
            [sign |-> FALSE, scheme |-> "", algorithm |-> ""]

\* case ua.UserNameIdentity
UserNameTokenFor(ui, tokenPolicy, securityPolicyURI, nonce, publickey) ==
    LET c == UserNameCase(EffectivePolicyURI(tokenPolicy, securityPolicyURI))
        e == EncryptSecret(ui.secret, nonce, publickey, c.overhead, c.padding)
    IN  IF ~c.encrypt
        THEN TokenResult(Nil,
                 UserNameIdentityToken(ui.userName, PlainBytes(ui.secret), "",
                                       tokenPolicy.policyID),
                 EmptySignatureData, "none")
        ELSE IF e.err # Nil THEN TokenError(e.err, e.buffers)
        ELSE TokenResult(Nil,
                 UserNameIdentityToken(ui.userName, CipherBytes(e.cipherBytes),
                                       c.algorithm, tokenPolicy.policyID),
                 EmptySignatureData, e.buffers)

\* case ua.IssuedIdentity
IssuedTokenFor(ui, tokenPolicy, securityPolicyURI, nonce, publickey) ==
    LET c == IssuedCase(EffectivePolicyURI(tokenPolicy, securityPolicyURI))
        e == EncryptSecret(ui.secret, nonce, publickey, c.overhead, c.padding)
    IN  IF ~c.encrypt
        THEN TokenResult(Nil,
                 IssuedIdentityToken(PlainBytes(ui.secret), "", tokenPolicy.policyID),
                 EmptySignatureData, "none")
        ELSE IF e.err # Nil THEN TokenError(e.err, e.buffers)
        ELSE TokenResult(Nil,
                 IssuedIdentityToken(CipherBytes(e.cipherBytes), c.algorithm,
                                     tokenPolicy.policyID),
                 EmptySignatureData, e.buffers)

\* the proof of possession with its two operands swapped
X509TokenForNonceFirst(ui, tokenPolicy, securityPolicyURI, serverCertificate, nonce) ==
    LET c == X509Case(EffectivePolicyURI(tokenPolicy, securityPolicyURI))
    IN  IF ~c.sign
        THEN TokenResult(Nil, X509IdentityToken(ui.secret, tokenPolicy.policyID),
                         EmptySignatureData, "none")
        ELSE IF ~ui.key.usable THEN TokenError(SignError, "none")
        ELSE TokenResult(Nil, X509IdentityToken(ui.secret, tokenPolicy.policyID),
                 SignatureData(RsaSign(ui.key.owner, c.scheme, nonce \o serverCertificate),
                               c.algorithm),
                 "none")

\* case ua.X509Identity
X509TokenFor(ui, tokenPolicy, securityPolicyURI, serverCertificate, nonce) ==
    LET c == X509Case(EffectivePolicyURI(tokenPolicy, securityPolicyURI))
    IN  IF ~c.sign
        THEN TokenResult(Nil, X509IdentityToken(ui.secret, tokenPolicy.policyID),
                         EmptySignatureData, "none")
        ELSE IF ~ui.key.usable THEN TokenError(SignError, "none")
        ELSE TokenResult(Nil, X509IdentityToken(ui.secret, tokenPolicy.policyID),
                 SignatureData(RsaSign(ui.key.owner, c.scheme, serverCertificate \o nonce),
                               c.algorithm),
                 "none")

\* the token type each case of the type switch looks for
TokenTypeOf(ui) ==
    CASE ui.type = "Issued" -> UserTokenTypeIssuedToken
      [] ui.type = "X509" -> UserTokenTypeCertificate
      [] ui.type = "UserName" -> UserTokenTypeUserName
      [] OTHER -> UserTokenTypeAnonymous

\* switch ui := ch.userIdentity.(type) { ... } of open
BuildIdentityToken(ui, userTokenPolicies, securityPolicyURI, serverCertificate, nonce, publickey) ==
    LET i == FindTokenPolicy(userTokenPolicies, TokenTypeOf(ui))
        tokenPolicy == userTokenPolicies[i]
    IN  IF i = 0 THEN TokenError(BadIdentityTokenRejected, "none")
        ELSE CASE ui.type = "Issued" ->
                    IssuedTokenFor(ui, tokenPolicy, securityPolicyURI, nonce, publickey)
               [] ui.type = "X509" ->
                    X509TokenFor(ui, tokenPolicy, securityPolicyURI, serverCertificate, nonce)
               [] ui.type = "UserName" ->
                    UserNameTokenFor(ui, tokenPolicy, securityPolicyURI, nonce, publickey)
               [] OTHER ->
                    TokenResult(Nil, AnonymousIdentityToken(tokenPolicy.policyID),
                                EmptySignatureData, "none")

----------------------------------------------------------------------------
(* Endpoint selection of Dial *)

EndpointDescription(url, uri, mode, certificate, tokens, level) ==
    [endpointURL |-> url, securityPolicyURI |-> uri, securityMode |-> mode,
     serverCertificate |-> certificate, userIdentityTokens |-> tokens,
     securityLevel |-> level]

\* an insertion that puts an endpoint before those of its own securityLevel
RECURSIVE InsertEndpointBeforeEqual(_, _)
InsertEndpointBeforeEqual(sorted, e) ==
    IF Len(sorted) = 0 THEN <<e>>
    ELSE IF e.securityLevel <= sorted[Len(sorted)].securityLevel
    THEN Append(InsertEndpointBeforeEqual(SubSeq(sorted, 1, Len(sorted) - 1), e),
                sorted[Len(sorted)])
    ELSE Append(sorted, e)

\* sort.Slice(orderedEndpoints, less by SecurityLevel): for the short lists a
\* server returns this is an insertion sort, which keeps equal levels in order
RECURSIVE InsertEndpoint(_, _)
InsertEndpoint(sorted, e) ==
    IF Len(sorted) = 0 THEN <<e>>
    ELSE IF e.securityLevel < sorted[Len(sorted)].securityLevel
    THEN Append(InsertEndpoint(SubSeq(sorted, 1, Len(sorted) - 1), e), sorted[Len(sorted)])
    ELSE Append(sorted, e)

\* the endpoints left in the order of the discovery response
SortEndpointsSkipped(list) == list

RECURSIVE SortEndpoints(_)
SortEndpoints(list) ==
    IF Len(list) = 0 THEN <<>>
    ELSE InsertEndpoint(SortEndpoints(SubSeq(list, 1, Len(list) - 1)), list[Len(list)])

\* the coercion that replaces the policy and keeps the mode the caller asked for
CoercedModeKept(securityPolicyURI, securityMode, localCertificate) == securityMode

\* the coercion that replaces the mode and keeps the policy the caller asked for
CoercedPolicyURIKept(securityPolicyURI, localCertificate) == securityPolicyURI

\* if securityPolicyURI == BestAvailable && len(cli.localCertificate) == 0 { None, None }
CoercedPolicyURI(securityPolicyURI, localCertificate) ==
    IF securityPolicyURI = SecurityPolicyURIBestAvailable /\ Len(localCertificate) = 0
    THEN SecurityPolicyURINone ELSE securityPolicyURI

CoercedMode(securityPolicyURI, securityMode, localCertificate) ==
    IF securityPolicyURI = SecurityPolicyURIBestAvailable /\ Len(localCertificate) = 0
    THEN MessageSecurityModeNone ELSE securityMode

\* the match without its test of the security mode
EndpointMatchesAnyMode(e, securityPolicyURI, securityMode) ==
    /\ e.securityPolicyURI \in RecognizedPolicyURIs
    /\ (securityPolicyURI = "" \/ e.securityPolicyURI = securityPolicyURI)

\* the body of the selection loop: the switch that skips unsupported URIs and the match
EndpointMatches(e, securityPolicyURI, securityMode) ==
    /\ e.securityPolicyURI \in RecognizedPolicyURIs
    /\ (securityPolicyURI = "" \/ e.securityPolicyURI = securityPolicyURI)
    /\ (securityMode = MessageSecurityModeInvalid \/ e.securityMode = securityMode)

\* for _, e := range orderedEndpoints { ...; selectedEndpoint = &e; break }
\* the index selected, 0 for selectedEndpoint == nil
RECURSIVE SelectFrom(_, _, _, _)
SelectFrom(orderedEndpoints, securityPolicyURI, securityMode, i) ==
    IF i > Len(orderedEndpoints) THEN 0
    ELSE IF EndpointMatches(orderedEndpoints[i], securityPolicyURI, securityMode) THEN i
    ELSE SelectFrom(orderedEndpoints, securityPolicyURI, securityMode, i + 1)

SelectEndpoint(orderedEndpoints, securityPolicyURI, securityMode) ==
    SelectFrom(orderedEndpoints, securityPolicyURI, securityMode, 1)

----------------------------------------------------------------------------
(* The values the caller and the server can supply *)

DiscoveryURL == "opc.tcp://127.0.0.1:46010"
ServerURL == "opc.tcp://server:46010"

ClientCertificate == <<48, 130, 9>>
UserCertificate == <<48, 130, 7>>
ServerCertificate == <<48, 130, 1>>      \* carries a usable 1024-bit key
WeakCertificate == <<48, 130, 3>>        \* carries a key the rsa package refuses
ForeignCertificate == <<48, 130, 2>>     \* some other server's certificate

\* the public key the channel takes from the remote certificate, nil for none
CertificateKey(certificate) ==
    CASE certificate = ServerCertificate -> PublicKey("server", 128, TRUE)
      [] certificate = WeakCertificate -> PublicKey("server", 128, FALSE)
      [] certificate = ForeignCertificate -> PublicKey("foreign", 256, TRUE)
      [] OTHER -> NoKey

Secret(n) == [i \in 1..n |-> 1 + (i % 100)]
Nonce(n) == [i \in 1..n |-> 200 + (i % 50)]

\* getNextNonce(nonceLength): nonceLength random bytes
nonceLength == 32
getNextNonce(length, seed) == [i \in 1..length |-> (seed + i) % 256]
NonceSeeds == {17, 99}
ServerNonces == { Nonce(0), Nonce(32) }

\* the user identities an option can configure
UserIdentities ==
    { AnonymousIdentity,
      UserNameIdentity("root", Secret(6)),
      IssuedIdentity(Secret(6)),
      X509Identity(UserCertificate, PublicKey("user", 256, TRUE)) }

\* the user-token policies a server can advertise; the policy id names the entry,
\* a server lists no policy twice and lists its policies by token type
TokenPolicyKinds ==
    { <<UserTokenTypeAnonymous, "">>,
      <<UserTokenTypeUserName, "">>,
      <<UserTokenTypeUserName, SecurityPolicyURIOther>>,
      <<UserTokenTypeCertificate, "">>,
      <<UserTokenTypeCertificate, SecurityPolicyURIBasic128Rsa15>>,
      <<UserTokenTypeIssuedToken, SecurityPolicyURIBasic256>> }

TokenPoliciesAt(i) ==
    { UserTokenPolicy(<<i, k[1], k[2]>>, k[1], k[2]) : k \in TokenPolicyKinds }

\* the order of the token types in a server's list
TokenTypeOrder ==
    << UserTokenTypeAnonymous, UserTokenTypeUserName, UserTokenTypeCertificate,
       UserTokenTypeIssuedToken >>

\* tokenType a is not listed after tokenType b
ListedNotAfter(a, b) ==
    \E i \in 1..Len(TokenTypeOrder), j \in 1..Len(TokenTypeOrder) :
        TokenTypeOrder[i] = a /\ TokenTypeOrder[j] = b /\ i <= j

RECURSIVE TokenPolicyListsOfLen(_)
TokenPolicyListsOfLen(n) ==
    IF n = 0 THEN { <<>> }
    ELSE UNION { { Append(l, t) :
                     t \in { u \in TokenPoliciesAt(n) :
                               \A j \in 1..Len(l) :
                                  /\ <<l[j].tokenType, l[j].securityPolicyURI>>
                                        # <<u.tokenType, u.securityPolicyURI>>
                                  /\ ListedNotAfter(l[j].tokenType, u.tokenType) } } :
                 l \in TokenPolicyListsOfLen(n - 1) }

TokenPolicyLists == UNION { TokenPolicyListsOfLen(n) : n \in 0..MaxTokenPolicies }

\* the endpoints of a server offering every policy, in the order it lists them;
\* two of them share the lowest securityLevel of the encrypting endpoints
FullServer(tokens, certificate) ==
    << EndpointDescription(ServerURL, SecurityPolicyURIBasic256Sha256,
                           MessageSecurityModeSignAndEncrypt, certificate, tokens, 3),
       EndpointDescription(ServerURL, SecurityPolicyURIOther,
                           MessageSecurityModeNone, certificate, tokens, 0),
       EndpointDescription(ServerURL, SecurityPolicyURINone,
                           MessageSecurityModeNone, certificate, tokens, 0),
       EndpointDescription(ServerURL, SecurityPolicyURIBasic128Rsa15,
                           MessageSecurityModeSignAndEncrypt, certificate, tokens, 1),
       EndpointDescription(ServerURL, SecurityPolicyURIAes256Sha256RsaPss,
                           MessageSecurityModeSignAndEncrypt, certificate, tokens, 5),
       EndpointDescription(ServerURL, SecurityPolicyURIBasic256,
                           MessageSecurityModeSign, certificate, tokens, 2),
       EndpointDescription(ServerURL, SecurityPolicyURIAes128Sha256RsaOaep,
                           MessageSecurityModeSignAndEncrypt, certificate, tokens, 1) >>

\* a server with a single unsecured endpoint
PlainServer(tokens, certificate) ==
    << EndpointDescription(ServerURL, SecurityPolicyURINone,
                           MessageSecurityModeNone, certificate, tokens, 0) >>

DiscoveryResponses ==
    { FullServer(t, ServerCertificate) : t \in TokenPolicyLists }
    \cup { PlainServer(t, c) : t \in TokenPolicyListsOfLen(1), c \in { <<>>, WeakCertificate } }
    \cup { <<>> }

\* what WithSecurityPolicyURI, WithClientCertificatePaths and the defaults leave
\* in securityPolicyURI, securityMode, localCertificate
RequestedSecurity ==
    { <<SecurityPolicyURIBestAvailable, MessageSecurityModeInvalid>>,
      <<SecurityPolicyURIBestAvailable, MessageSecurityModeSignAndEncrypt>>,
      <<SecurityPolicyURINone, MessageSecurityModeNone>>,
      <<SecurityPolicyURIOther, MessageSecurityModeSignAndEncrypt>>,
      <<SecurityPolicyURIBasic256, MessageSecurityModeSign>>,
      <<SecurityPolicyURIBasic256, MessageSecurityModeSignAndEncrypt>> }
    \cup { <<p, MessageSecurityModeSignAndEncrypt>> :
              p \in RecognizedPolicyURIs \ { SecurityPolicyURINone, SecurityPolicyURIBasic256 } }

----------------------------------------------------------------------------
(* Dial *)

NoResponse ==
    [sessionID |-> "", authenticationToken |-> "", serverNonce |-> <<>>,
     serverCertificate |-> <<>>, serverSignature |-> EmptySignatureData,
     revisedSessionTimeout |-> 0, maxRequestMessageSize |-> 0]

NoChannel ==
    [state |-> "nil", endpointURL |-> "", securityPolicyURI |-> "", securityMode |-> "",
     localCertificate |-> <<>>, localPrivateKey |-> NoKey, remoteCertificate |-> <<>>,
     remotePublicKey |-> NoKey, authenticationToken |-> "", maxRequestMessageSize |-> 0,
     namespaceURIs |-> <<>>, serverURIs |-> <<>>]

NoCreateSessionRequest ==
    [endpointURL |-> "", clientNonce |-> <<>>, clientCertificate |-> <<>>,
     requestedSessionTimeout |-> 0]

NoActivateSessionRequest ==
    [clientSignature |-> EmptySignatureData, localeIDs |-> <<>>,
     userIdentityToken |-> NoToken, userTokenSignature |-> EmptySignatureData]

NotReturned == [returned |-> FALSE, client |-> "nil", err |-> Nil]
Returned(client, err) == [returned |-> TRUE, client |-> client, err |-> err]

EncIdle ==
    [kind |-> "idle", ui |-> AnonymousIdentity, userTokenPolicies |-> <<>>,
     securityPolicyURI |-> "", serverCertificate |-> <<>>, nonce |-> <<>>,
     publickey |-> NoKey, out |-> TokenError(Nil, "none")]

\* func (ch *Client) SecurityPolicyURI() string / SecurityMode() ua.MessageSecurityMode
SecurityPolicyURI(c) == c.securityPolicyURI
SecurityMode(c) == c.securityMode

\* cli := &Client{...} with the defaults of Dial
NewClient ==
    [endpointURL |-> DiscoveryURL, userIdentity |-> AnonymousIdentity,
     securityPolicyURI |-> SecurityPolicyURIBestAvailable,
     securityMode |-> MessageSecurityModeInvalid,
     localCertificate |-> <<>>, localPrivateKey |-> NoKey, forcedEndpoint |-> FALSE,
     serverCertificate |-> <<>>, userTokenPolicies |-> <<>>,
     sessionID |-> "", sessionTimeout |-> 120000,
     clientSignature |-> EmptySignatureData, identityToken |-> NoToken,
     identityTokenSignature |-> EmptySignatureData]

HandshakeInit ==
    /\ pc = "Options"
    /\ cli = NewClient
    /\ channel = NoChannel
    /\ endpoints = <<>>
    /\ localNonce = <<>>
    /\ remoteNonce = <<>>
    /\ createSessionRequest = NoCreateSessionRequest
    /\ createSessionResponse = NoResponse
    /\ clientSignature = EmptySignatureData
    /\ tokenResult = TokenError(Nil, "none")
    /\ activateSessionRequest = NoActivateSessionRequest
    /\ readResponse = <<>>
    /\ steps = <<>>
    /\ wire = <<>>
    /\ openErr = Nil
    /\ ret = NotReturned
    /\ opts = NewClient
    /\ calls = <<>>

Init == HandshakeInit /\ enc = EncIdle

\* return nil, err before a channel exists
DialFails(err) ==
    /\ pc' = "Returned"
    /\ ret' = Returned("nil", err)

\* return err from open: Dial goes on to cli.Abort
OpenFails(err) ==
    /\ pc' = "OpenFailed"
    /\ openErr' = err

\* the loop over the options with the error of an option looked at after discovery
ApplyOptionsErrorAfterDiscovery ==
    /\ pc = "Options"
    /\ \/ /\ DialFails("OptionError")
          /\ steps' = Append(steps, "GetEndpoints")
          /\ wire' = wire \o <<"GetEndpointsRequest", "GetEndpointsResponse">>
          /\ UNCHANGED <<cli, opts>>
       \/ \E sec \in RequestedSecurity, hasCert \in BOOLEAN, forced \in BOOLEAN,
             ui \in UserIdentities :
             /\ hasCert \/ sec[1] \in { SecurityPolicyURIBestAvailable, SecurityPolicyURINone }
             /\ forced => ui = AnonymousIdentity
             /\ cli' = [cli EXCEPT
                   !.securityPolicyURI = sec[1],
                   !.securityMode = sec[2],
                   !.localCertificate = IF hasCert THEN ClientCertificate ELSE <<>>,
                   !.localPrivateKey =
                       IF hasCert THEN PublicKey("client", 256, TRUE) ELSE NoKey,
                   !.forcedEndpoint = forced,
                   !.userIdentity = ui]
             /\ opts' = cli'
             /\ pc' = "GetEndpoints"
             /\ UNCHANGED <<ret, steps, wire>>
    /\ UNCHANGED <<calls, channel, endpoints, openLocals, openErr, enc>>

\* for _, opt := range opts { if err := opt(cli); err != nil { return nil, err } }
ApplyOptions ==
    /\ pc = "Options"
    /\ \/ /\ DialFails("OptionError")
          /\ UNCHANGED <<cli, opts>>
       \/ \E sec \in RequestedSecurity, hasCert \in BOOLEAN, forced \in BOOLEAN,
             ui \in UserIdentities :
             /\ hasCert \/ sec[1] \in { SecurityPolicyURIBestAvailable, SecurityPolicyURINone }
             /\ forced => ui = AnonymousIdentity
             /\ cli' = [cli EXCEPT
                   !.securityPolicyURI = sec[1],
                   !.securityMode = sec[2],
                   !.localCertificate = IF hasCert THEN ClientCertificate ELSE <<>>,
                   !.localPrivateKey =
                       IF hasCert THEN PublicKey("client", 256, TRUE) ELSE NoKey,
                   !.forcedEndpoint = forced,
                   !.userIdentity = ui]
             /\ opts' = cli'
             /\ pc' = "GetEndpoints"
             /\ UNCHANGED ret
    /\ UNCHANGED <<calls, channel, endpoints, openLocals, steps, wire, openErr, enc>>

\* res, err := GetEndpoints(ctx, req); if err != nil { return nil, err }
GetEndpoints ==
    /\ pc = "GetEndpoints"
    /\ steps' = Append(steps, "GetEndpoints")
    /\ \/ /\ DialFails("BadTimeout:GetEndpoints")
          /\ wire' = wire \o <<"GetEndpointsRequest", "ServiceFault">>
          /\ UNCHANGED endpoints
       \/ \E res \in DiscoveryResponses :
             /\ endpoints' = res
             /\ wire' = wire \o <<"GetEndpointsRequest", "GetEndpointsResponse">>
             /\ pc' = "SelectEndpoint"
             /\ UNCHANGED ret
    /\ UNCHANGED <<opts, calls, cli, channel, openLocals, openErr, enc>>

\* newClientSecureChannel(...) with the fields of cli after the selection
NewClientSecureChannel(c) ==
    [NoChannel EXCEPT
        !.state = "created",
        !.endpointURL = c.endpointURL,
        !.securityPolicyURI = c.securityPolicyURI,
        !.securityMode = c.securityMode,
        !.localCertificate = c.localCertificate,
        !.localPrivateKey = c.localPrivateKey,
        !.remoteCertificate = c.serverCertificate]

\* the copy that takes the endpoint's URL whether or not the caller forced his own
WithSelectedEndpointURL(c, e) ==
    [c EXCEPT
        !.endpointURL = e.endpointURL,
        !.securityPolicyURI = e.securityPolicyURI,
        !.securityMode = e.securityMode,
        !.serverCertificate = e.serverCertificate,
        !.userTokenPolicies = e.userIdentityTokens]

\* the copy that leaves the policy the caller asked for in place
WithSelectedEndpointKeepingPolicy(c, e) ==
    [c EXCEPT
        !.endpointURL = IF c.forcedEndpoint THEN DiscoveryURL ELSE e.endpointURL,
        !.securityMode = e.securityMode,
        !.serverCertificate = e.serverCertificate,
        !.userTokenPolicies = e.userIdentityTokens]

\* cli after the selected endpoint is copied into it
WithSelectedEndpoint(c, e) ==
    [c EXCEPT
        !.endpointURL = IF c.forcedEndpoint THEN DiscoveryURL ELSE e.endpointURL,
        !.securityPolicyURI = e.securityPolicyURI,
        !.securityMode = e.securityMode,
        !.serverCertificate = e.serverCertificate,
        !.userTokenPolicies = e.userIdentityTokens]

\* from sort.Slice to newClientSecureChannel
ChooseEndpoint ==
    /\ pc = "SelectEndpoint"
    /\ steps' = Append(steps, "SelectEndpoint")
    /\ endpoints' = SortEndpoints(endpoints)
    /\ LET i == SelectEndpoint(endpoints',
                    CoercedPolicyURI(cli.securityPolicyURI, cli.localCertificate),
                    CoercedMode(cli.securityPolicyURI, cli.securityMode, cli.localCertificate))
       IN  IF i = 0
           THEN /\ DialFails(BadSecurityModeRejected)
                /\ UNCHANGED <<cli, channel>>
           ELSE /\ cli' = WithSelectedEndpoint(cli, endpoints'[i])
                /\ channel' = NewClientSecureChannel(cli')
                /\ pc' = "ChannelOpen"
                /\ UNCHANGED ret
    /\ UNCHANGED <<opts, calls, openLocals, wire, openErr, enc>>

----------------------------------------------------------------------------
(* Client.open *)

\* ch.channel.Open(ctx): the transport handshake and OpenSecureChannel
ChannelOpen ==
    /\ pc = "ChannelOpen"
    /\ steps' = Append(steps, "ChannelOpen")
    /\ \/ /\ OpenFails("BadConnectionClosed:Open")
          /\ UNCHANGED channel
       \/ /\ channel' = [channel EXCEPT
                !.state = "open",
                !.remotePublicKey = CertificateKey(channel.remoteCertificate)]
          /\ pc' = "CreateSession"
          /\ UNCHANGED openErr
    /\ UNCHANGED <<opts, calls, cli, endpoints, openLocals, wire, ret, enc>>

\* the request built with a nonce of its own, drawn after localNonce
SendCreateSessionSecondNonce ==
    /\ pc = "CreateSession"
    /\ \E seed \in NonceSeeds, second \in NonceSeeds :
          /\ second # seed
          /\ localNonce' = getNextNonce(nonceLength, seed)
          /\ createSessionRequest' =
                [endpointURL |-> cli.endpointURL,
                 clientNonce |-> getNextNonce(nonceLength, second),
                 clientCertificate |-> channel.localCertificate,
                 requestedSessionTimeout |-> cli.sessionTimeout]
    /\ steps' = Append(steps, "CreateSession")
    /\ wire' = Append(wire, "CreateSessionRequest")
    /\ pc' = "AwaitCreateSession"
    /\ UNCHANGED <<opts, calls, readResponse, cli, channel, endpoints, remoteNonce, createSessionResponse,
                   clientSignature, tokenResult, activateSessionRequest, openErr, ret, enc>>

\* localNonce = getNextNonce(nonceLength) up to the call of ch.createSession
SendCreateSession ==
    /\ pc = "CreateSession"
    /\ \E seed \in NonceSeeds : localNonce' = getNextNonce(nonceLength, seed)
    /\ createSessionRequest' =
          [endpointURL |-> cli.endpointURL, clientNonce |-> localNonce',
           clientCertificate |-> channel.localCertificate,
           requestedSessionTimeout |-> cli.sessionTimeout]
    /\ steps' = Append(steps, "CreateSession")
    /\ wire' = Append(wire, "CreateSessionRequest")
    /\ pc' = "AwaitCreateSession"
    /\ UNCHANGED <<opts, calls, readResponse, cli, channel, endpoints, remoteNonce, createSessionResponse,
                   clientSignature, tokenResult, activateSessionRequest, openErr, ret, enc>>

\* the switch with Basic256 moved to the SHA-256 case
VerifySchemeBasic256AsSha256(securityPolicyURI) ==
    CASE securityPolicyURI = SecurityPolicyURIBasic128Rsa15 -> SchemeSha1Pkcs1v15
      [] securityPolicyURI \in { SecurityPolicyURIBasic256, SecurityPolicyURIBasic256Sha256,
                                 SecurityPolicyURIAes128Sha256RsaOaep } ->
            SchemeSha256Pkcs1v15
      [] securityPolicyURI = SecurityPolicyURIAes256Sha256RsaPss -> SchemeSha256Pss
      [] OTHER -> ""

\* the scheme the switch that verifies the server's signature uses, "" for no case
VerifyScheme(securityPolicyURI) ==
    CASE securityPolicyURI \in { SecurityPolicyURIBasic128Rsa15, SecurityPolicyURIBasic256 } ->
            SchemeSha1Pkcs1v15
      [] securityPolicyURI \in { SecurityPolicyURIBasic256Sha256,
                                 SecurityPolicyURIAes128Sha256RsaOaep } ->
            SchemeSha256Pkcs1v15
      [] securityPolicyURI = SecurityPolicyURIAes256Sha256RsaPss -> SchemeSha256Pss
      [] OTHER -> ""

\* the signatures a server may put into its CreateSessionResponse
ServerSignatures(securityPolicyURI, clientCertificate, clientNonce) ==
    IF VerifyScheme(securityPolicyURI) = ""
    THEN { NoSignature, RsaSign("foreign", SchemeSha256Pkcs1v15, <<>>) }
    ELSE { NoSignature,
           RsaSign("foreign", VerifyScheme(securityPolicyURI), clientCertificate \o clientNonce),
           RsaSign("server", VerifyScheme(securityPolicyURI), clientNonce \o clientCertificate) }
         \cup { RsaSign("server", sch, clientCertificate \o clientNonce) :
                    sch \in { SchemeSha1Pkcs1v15, SchemeSha256Pkcs1v15, SchemeSha256Pss } }

\* the certificate, the signature and the nonce of a CreateSessionResponse: the
\* certificate of the endpoint with a signature that verifies and any of the
\* nonces, the same certificate with any other signature, or another certificate
ServerAnswers(serverCertificate, securityPolicyURI, clientCertificate, clientNonce) ==
    LET valid == RsaSign("server", VerifyScheme(securityPolicyURI),
                         clientCertificate \o clientNonce)
    IN  { <<serverCertificate, valid, n>> : n \in ServerNonces }
        \cup { <<serverCertificate, s, Nonce(nonceLength)>> :
                  s \in ServerSignatures(securityPolicyURI, clientCertificate, clientNonce) }
        \cup { <<ForeignCertificate, valid, Nonce(nonceLength)>> }

\* the response kept in the local alone: nothing of it stored in the client or the channel
RecvCreateSessionStoresNothing ==
    /\ pc = "AwaitCreateSession"
    /\ \/ /\ OpenFails("BadTimeout:CreateSession")
          /\ wire' = Append(wire, "ServiceFault")
          /\ UNCHANGED <<remoteNonce, createSessionResponse>>
       \/ \E answer \in ServerAnswers(cli.serverCertificate, cli.securityPolicyURI,
                              createSessionRequest.clientCertificate,
                              createSessionRequest.clientNonce) :
             /\ createSessionResponse' =
                   [sessionID |-> "session-1", authenticationToken |-> "token-1",
                    serverNonce |-> answer[3], serverCertificate |-> answer[1],
                    serverSignature |-> SignatureData(answer[2], ""),
                    revisedSessionTimeout |-> 60000, maxRequestMessageSize |-> 65536]
             /\ remoteNonce' = createSessionResponse'.serverNonce
             /\ wire' = Append(wire, "CreateSessionResponse")
             /\ pc' = "CheckCertificate"
             /\ UNCHANGED openErr
    /\ UNCHANGED <<opts, calls, cli, channel, readResponse, endpoints, localNonce,
                   createSessionRequest, clientSignature, tokenResult,
                   activateSessionRequest, steps, ret, enc>>

\* createSessionResponse, err := ch.createSession(...) and the four assignments after it
RecvCreateSession ==
    /\ pc = "AwaitCreateSession"
    /\ \/ /\ OpenFails("BadTimeout:CreateSession")
          /\ wire' = Append(wire, "ServiceFault")
          /\ UNCHANGED <<cli, channel, remoteNonce, createSessionResponse>>
       \/ \E answer \in ServerAnswers(cli.serverCertificate, cli.securityPolicyURI,
                              createSessionRequest.clientCertificate,
                              createSessionRequest.clientNonce) :
             LET certificate == answer[1]
                 signature == answer[2]
                 nonce == answer[3]
             IN
             /\ createSessionResponse' =
                   [sessionID |-> "session-1", authenticationToken |-> "token-1",
                    serverNonce |-> nonce, serverCertificate |-> certificate,
                    serverSignature |-> SignatureData(signature, ""),
                    revisedSessionTimeout |-> 60000, maxRequestMessageSize |-> 65536]
             /\ cli' = [cli EXCEPT
                   !.sessionID = createSessionResponse'.sessionID,
                   !.sessionTimeout = createSessionResponse'.revisedSessionTimeout]
             /\ channel' = [channel EXCEPT
                   !.authenticationToken = createSessionResponse'.authenticationToken,
                   !.maxRequestMessageSize = createSessionResponse'.maxRequestMessageSize]
             /\ remoteNonce' = createSessionResponse'.serverNonce
             /\ wire' = Append(wire, "CreateSessionResponse")
             /\ pc' = "CheckCertificate"
             /\ UNCHANGED openErr
    /\ UNCHANGED <<opts, calls, readResponse, endpoints, localNonce, createSessionRequest, clientSignature,
                   tokenResult, activateSessionRequest, steps, ret, enc>>

\* a comparison of the lengths alone
BytesEqualLengths(a, b) == Len(a) = Len(b)

\* bytes.Equal
BytesEqual(a, b) == a = b

\* if !bytes.Equal(ch.serverCertificate, createSessionResponse.ServerCertificate)
CheckServerCertificate ==
    /\ pc = "CheckCertificate"
    /\ steps' = Append(steps, "CheckServerCertificate")
    /\ IF ~BytesEqual(cli.serverCertificate, createSessionResponse.serverCertificate)
       THEN OpenFails(BadCertificateInvalid)
       ELSE pc' = "VerifySignature" /\ UNCHANGED openErr
    /\ UNCHANGED <<opts, calls, cli, channel, endpoints, openLocals, wire, ret, enc>>

\* open going on to the client signature with the verification left out
VerifyServerSignatureSkipped ==
    /\ pc = "VerifySignature"
    /\ pc' = "ClientSignature"
    /\ UNCHANGED <<opts, calls, cli, channel, endpoints, openLocals, steps, wire, openErr, ret, enc>>

\* the switch with a default case that verifies with SHA-256 and PKCS#1 v1.5
VerifyServerSignatureAlways ==
    /\ pc = "VerifySignature"
    /\ steps' = Append(steps, "VerifyServerSignature")
    /\ LET scheme == IF VerifyScheme(cli.securityPolicyURI) # ""
                     THEN VerifyScheme(cli.securityPolicyURI)
                     ELSE SchemeSha256Pkcs1v15
       IN  IF ~RsaVerify(channel.remotePublicKey, scheme,
                         channel.localCertificate \o localNonce,
                         createSessionResponse.serverSignature.signature)
           THEN OpenFails(BadApplicationSignatureInvalid)
           ELSE pc' = "ClientSignature" /\ UNCHANGED openErr
    /\ UNCHANGED <<opts, calls, cli, channel, endpoints, openLocals, wire, ret, enc>>

\* switch ch.securityPolicyURI { ... rsa.Verify... } over localCertificate, localNonce
VerifyServerSignature ==
    /\ pc = "VerifySignature"
    /\ steps' = Append(steps, "VerifyServerSignature")
    /\ IF /\ VerifyScheme(cli.securityPolicyURI) # ""
          /\ ~RsaVerify(channel.remotePublicKey, VerifyScheme(cli.securityPolicyURI),
                        channel.localCertificate \o localNonce,
                        createSessionResponse.serverSignature.signature)
       THEN OpenFails(BadApplicationSignatureInvalid)
       ELSE pc' = "ClientSignature" /\ UNCHANGED openErr
    /\ UNCHANGED <<opts, calls, cli, channel, endpoints, openLocals, wire, ret, enc>>

\* the switch that creates the client signature
\* the switch with Basic256 moved to the SHA-256 case
ClientSignatureCaseBasic256AsSha256(securityPolicyURI) ==
    CASE securityPolicyURI = SecurityPolicyURIBasic128Rsa15 ->
            [sign |-> TRUE, scheme |-> SchemeSha1Pkcs1v15, algorithm |-> RsaSha1Signature]
      [] securityPolicyURI \in { SecurityPolicyURIBasic256, SecurityPolicyURIBasic256Sha256,
                                 SecurityPolicyURIAes128Sha256RsaOaep } ->
            [sign |-> TRUE, scheme |-> SchemeSha256Pkcs1v15, algorithm |-> RsaSha256Signature]
      [] securityPolicyURI = SecurityPolicyURIAes256Sha256RsaPss ->
            [sign |-> TRUE, scheme |-> SchemeSha256Pss, algorithm |-> RsaPssSha256Signature]
      [] OTHER ->
            [sign |-> FALSE, scheme |-> "", algorithm |-> ""]

ClientSignatureCase(securityPolicyURI) ==
    CASE securityPolicyURI \in { SecurityPolicyURIBasic128Rsa15, SecurityPolicyURIBasic256 } ->
            [sign |-> TRUE, scheme |-> SchemeSha1Pkcs1v15, algorithm |-> RsaSha1Signature]
      [] securityPolicyURI \in { SecurityPolicyURIBasic256Sha256,
                                 SecurityPolicyURIAes128Sha256RsaOaep } ->
            [sign |-> TRUE, scheme |-> SchemeSha256Pkcs1v15, algorithm |-> RsaSha256Signature]
      [] securityPolicyURI = SecurityPolicyURIAes256Sha256RsaPss ->
            [sign |-> TRUE, scheme |-> SchemeSha256Pss, algorithm |-> RsaPssSha256Signature]
      [] OTHER ->
            [sign |-> FALSE, scheme |-> "", algorithm |-> ""]

CreateClientSignature ==
    /\ pc = "ClientSignature"
    /\ steps' = Append(steps, "ClientSignature")
    /\ LET c == ClientSignatureCase(cli.securityPolicyURI)
       IN  IF ~c.sign
           THEN /\ clientSignature' = EmptySignatureData
                /\ pc' = "IdentityToken"
                /\ UNCHANGED openErr
           ELSE IF ~channel.localPrivateKey.usable
           THEN /\ OpenFails(SignError)
                /\ UNCHANGED clientSignature
           ELSE /\ clientSignature' =
                      SignatureData(RsaSign(channel.localPrivateKey.owner, c.scheme,
                                            cli.serverCertificate \o remoteNonce),
                                    c.algorithm)
                /\ pc' = "IdentityToken"
                /\ UNCHANGED openErr
    /\ UNCHANGED <<opts, calls, readResponse, cli, channel, endpoints, localNonce, remoteNonce, createSessionRequest,
                   createSessionResponse, tokenResult, activateSessionRequest,
                   wire, ret, enc>>

\* switch ui := ch.userIdentity.(type) { ... }
BuildToken ==
    /\ pc = "IdentityToken"
    /\ steps' = Append(steps, "BuildIdentityToken")
    /\ tokenResult' = BuildIdentityToken(cli.userIdentity, cli.userTokenPolicies,
                          cli.securityPolicyURI, cli.serverCertificate, remoteNonce,
                          channel.remotePublicKey)
    /\ IF tokenResult'.err # Nil
       THEN OpenFails(tokenResult'.err)
       ELSE pc' = "ActivateSession" /\ UNCHANGED openErr
    /\ UNCHANGED <<opts, calls, readResponse, cli, channel, endpoints, localNonce, remoteNonce, createSessionRequest,
                   createSessionResponse, clientSignature, activateSessionRequest,
                   wire, ret, enc>>

\* the three assignments "save for re-connect" and the call of ch.activateSession
SendActivateSession ==
    /\ pc = "ActivateSession"
    /\ cli' = [cli EXCEPT
          !.clientSignature = clientSignature,
          !.identityToken = tokenResult.identityToken,
          !.identityTokenSignature = tokenResult.identityTokenSignature]
    /\ activateSessionRequest' =
          [clientSignature |-> cli'.clientSignature, localeIDs |-> <<"en">>,
           userIdentityToken |-> tokenResult.identityToken,
           userTokenSignature |-> cli'.identityTokenSignature]
    /\ steps' = Append(steps, "ActivateSession")
    /\ wire' = Append(wire, "ActivateSessionRequest")
    /\ pc' = "AwaitActivateSession"
    /\ UNCHANGED <<opts, calls, readResponse, channel, endpoints, localNonce, remoteNonce, createSessionRequest,
                   createSessionResponse, clientSignature, tokenResult, openErr, ret, enc>>

\* open going on to the Read whatever ch.activateSession returned
RecvActivateSessionErrorIgnored ==
    /\ pc = "AwaitActivateSession"
    /\ \/ wire' = Append(wire, "ServiceFault")
       \/ wire' = Append(wire, "ActivateSessionResponse")
    /\ pc' = "Read"
    /\ UNCHANGED <<opts, calls, cli, channel, endpoints, openLocals, steps, ret, openErr, enc>>

\* activateSessionResponse, err := ch.activateSession(...)
RecvActivateSession ==
    /\ pc = "AwaitActivateSession"
    /\ \/ /\ OpenFails("BadIdentityTokenInvalid:ActivateSession")
          /\ wire' = Append(wire, "ServiceFault")
       \/ /\ pc' = "Read"
          /\ wire' = Append(wire, "ActivateSessionResponse")
          /\ UNCHANGED openErr
    /\ UNCHANGED <<opts, calls, cli, channel, endpoints, openLocals, steps, ret, enc>>

\* readResponse, err := ch.Read(ctx, readRequest)
SendRead ==
    /\ pc = "Read"
    /\ steps' = Append(steps, "Read")
    /\ wire' = Append(wire, "ReadRequest")
    /\ pc' = "AwaitRead"
    /\ UNCHANGED <<opts, calls, cli, channel, endpoints, openLocals, openErr, ret, enc>>

NamespaceArray == <<"http://opcfoundation.org/UA/", "urn:server:ns">>
ServerArray == <<"urn:server">>

\* what a result with a Bad status carries in place of a value
BadValue == <<"BadNodeIdUnknown">>

\* the results of the bootstrap Read a server may return: status and value of each
ReadResults ==
    { << [good |-> TRUE, value |-> NamespaceArray] >> }
    \cup { << [good |-> g0, value |-> IF g0 THEN NamespaceArray ELSE BadValue],
              [good |-> g1, value |-> IF g1 THEN ServerArray ELSE BadValue] >> :
           g0 \in BOOLEAN, g1 \in BOOLEAN }

\* func (ch *Client) GetNamespaceURIs() []string
GetNamespaceURIs(ch) == ch.namespaceURIs

\* the two tables set only when both results are Good
RecvReadAllOrNothing ==
    /\ pc = "AwaitRead"
    /\ \/ /\ OpenFails("BadTimeout:Read")
          /\ wire' = Append(wire, "ServiceFault")
          /\ UNCHANGED <<channel, ret, readResponse>>
       \/ \E results \in ReadResults :
             /\ readResponse' = results
             /\ channel' =
                   IF Len(results) = 2 /\ results[1].good /\ results[2].good
                   THEN [channel EXCEPT !.namespaceURIs = results[1].value,
                                        !.serverURIs = results[2].value]
                   ELSE channel
             /\ wire' = Append(wire, "ReadResponse")
             /\ pc' = "Ready"
             /\ ret' = Returned("cli", Nil)
             /\ UNCHANGED openErr
    /\ UNCHANGED <<opts, calls, cli, endpoints, localNonce, remoteNonce, createSessionRequest,
                   createSessionResponse, clientSignature, tokenResult,
                   activateSessionRequest, steps, enc>>

\* from the return of ch.Read to return nil, and Dial's return cli, nil
RecvRead ==
    /\ pc = "AwaitRead"
    /\ \/ /\ OpenFails("BadTimeout:Read")
          /\ wire' = Append(wire, "ServiceFault")
          /\ UNCHANGED <<channel, ret, readResponse>>
       \/ \E results \in ReadResults :
             /\ readResponse' = results
             /\ channel' =
                   IF Len(results) = 2
                   THEN [channel EXCEPT
                           !.namespaceURIs =
                               IF results[1].good THEN results[1].value ELSE @,
                           !.serverURIs =
                               IF results[2].good THEN results[2].value ELSE @]
                   ELSE channel
             /\ wire' = Append(wire, "ReadResponse")
             /\ pc' = "Ready"
             /\ ret' = Returned("cli", Nil)
             /\ UNCHANGED openErr
    /\ UNCHANGED <<opts, calls, cli, endpoints, localNonce, remoteNonce, createSessionRequest,
                   createSessionResponse, clientSignature, tokenResult,
                   activateSessionRequest, steps, enc>>

\* Dial returning the error of open without the call of cli.Abort
DialReturnsWithoutAbort ==
    /\ pc = "OpenFailed"
    /\ ret' = Returned("nil", openErr)
    /\ pc' = "Returned"
    /\ UNCHANGED <<opts, calls, cli, channel, endpoints, openLocals, steps, wire, openErr, enc>>

\* Dial returning the client together with the error of open
DialAbortKeepsClient ==
    /\ pc = "OpenFailed"
    /\ channel' = [channel EXCEPT !.state = "aborted"]
    /\ ret' = Returned("cli", openErr)
    /\ pc' = "Returned"
    /\ UNCHANGED <<opts, calls, cli, endpoints, openLocals, steps, wire, openErr, enc>>

\* Dial closing the session it had created before it aborts the channel
DialAbortClosesSession ==
    /\ pc = "OpenFailed"
    /\ wire' = IF cli.sessionID # "" THEN Append(wire, "CloseSessionRequest") ELSE wire
    /\ channel' = [channel EXCEPT !.state = "aborted"]
    /\ ret' = Returned("nil", openErr)
    /\ pc' = "Returned"
    /\ UNCHANGED <<opts, calls, cli, endpoints, openLocals, steps, openErr, enc>>

\* if err := cli.open(ctx); err != nil { cli.Abort(ctx); return nil, err }
DialAbort ==
    /\ pc = "OpenFailed"
    /\ channel' = [channel EXCEPT !.state = "aborted"]
    /\ ret' = Returned("nil", openErr)
    /\ pc' = "Returned"
    /\ UNCHANGED <<opts, calls, cli, endpoints, openLocals, steps, wire, openErr, enc>>

----------------------------------------------------------------------------
(* Client.Close, Client.CloseDeleteSubscriptions, Client.Abort *)

\* what ch.channel.Request returns for a request handed to it: a channel that is
\* not open cannot send, an open one delivers the response or fails
RequestOutcomes(ch) ==
    IF ch.state = "open" THEN { "Response", "BadTimeout" } ELSE { "BadConnectionClosed" }

\* a call of Close up to the point where closeSession waits for its answer
CloseCall(deleteSubscriptions) ==
    [op |-> "Close", arg |-> "none",
     request |-> [deleteSubscriptions |-> deleteSubscriptions],
     answer |-> "", channelClosed |-> FALSE, channelAborted |-> FALSE,
     returned |-> FALSE, err |-> Nil]

\* the same of CloseDeleteSubscriptions(ctx, deleteSubscriptions)
CloseDeleteSubscriptionsCall(deleteSubscriptions) ==
    [CloseCall(deleteSubscriptions) EXCEPT
        !.op = "CloseDeleteSubscriptions", !.arg = deleteSubscriptions]

\* the call whose closeSession has not returned yet
InFlight == CHOOSE n \in 1..Len(calls) : ~calls[n].returned

\* var request = &ua.CloseSessionRequest{DeleteSubscriptions: true}; ch.closeSession(ctx, request)
SendCloseSessionWithin(limit) ==
    /\ pc = "Ready"
    /\ Len(calls) < limit
    /\ calls' = Append(calls, CloseCall(TRUE))
    /\ pc' = "AwaitCloseSession"
    /\ UNCHANGED <<opts, cli, channel, endpoints, openLocals, steps, wire, openErr, ret, enc>>

SendCloseSession == SendCloseSessionWithin(MaxCalls)

\* Close returning nil on the answer without closing the channel
RecvCloseSessionKeepsChannel ==
    /\ pc = "AwaitCloseSession"
    /\ \E outcome \in RequestOutcomes(channel) :
          calls' = [calls EXCEPT ![InFlight] =
                       IF outcome = "Response"
                       THEN [@ EXCEPT !.answer = "CloseSessionResponse", !.returned = TRUE]
                       ELSE [@ EXCEPT !.answer = "ServiceFault", !.returned = TRUE,
                                      !.err = outcome]]
    /\ pc' = "Ready"
    /\ UNCHANGED <<opts, cli, channel, endpoints, openLocals, steps, wire, openErr, ret, enc>>

\* Close closing the channel whether or not closeSession returned an error
RecvCloseSessionClosesAlways ==
    /\ pc = "AwaitCloseSession"
    /\ \E outcome \in RequestOutcomes(channel) :
          IF outcome = "Response"
          THEN calls' = [calls EXCEPT ![InFlight] =
                            [@ EXCEPT !.answer = "CloseSessionResponse",
                                      !.channelClosed = TRUE, !.returned = TRUE]]
          ELSE calls' = [calls EXCEPT ![InFlight] =
                            [@ EXCEPT !.answer = "ServiceFault", !.channelClosed = TRUE,
                                      !.returned = TRUE, !.err = outcome]]
    /\ channel' = [channel EXCEPT !.state = "closed"]
    /\ pc' = "Ready"
    /\ UNCHANGED <<opts, cli, endpoints, openLocals, steps, wire, openErr, ret, enc>>

\* Close aborting the channel when closeSession returned an error
RecvCloseSessionAbortsOnError ==
    /\ pc = "AwaitCloseSession"
    /\ \E outcome \in RequestOutcomes(channel) :
          IF outcome = "Response"
          THEN /\ calls' = [calls EXCEPT ![InFlight] =
                               [@ EXCEPT !.answer = "CloseSessionResponse",
                                         !.channelClosed = TRUE, !.returned = TRUE]]
               /\ channel' = [channel EXCEPT !.state = "closed"]
          ELSE /\ calls' = [calls EXCEPT ![InFlight] =
                               [@ EXCEPT !.answer = "ServiceFault", !.channelAborted = TRUE,
                                         !.returned = TRUE, !.err = outcome]]
               /\ channel' = [channel EXCEPT !.state = "aborted"]
    /\ pc' = "Ready"
    /\ UNCHANGED <<opts, cli, endpoints, openLocals, steps, wire, openErr, ret, enc>>

\* if err != nil { return err }; ch.channel.Close(ctx); return nil
RecvCloseSession ==
    /\ pc = "AwaitCloseSession"
    /\ \E outcome \in RequestOutcomes(channel) :
          IF outcome = "Response"
          THEN /\ calls' = [calls EXCEPT ![InFlight] =
                               [@ EXCEPT !.answer = "CloseSessionResponse",
                                         !.channelClosed = TRUE, !.returned = TRUE]]
               /\ channel' = [channel EXCEPT !.state = "closed"]
          ELSE /\ calls' = [calls EXCEPT ![InFlight] =
                               [@ EXCEPT !.answer = "ServiceFault", !.returned = TRUE,
                                         !.err = outcome]]
               /\ UNCHANGED channel
    /\ pc' = "Ready"
    /\ UNCHANGED <<opts, cli, endpoints, openLocals, steps, wire, openErr, ret, enc>>

\* var request = &ua.CloseSessionRequest{DeleteSubscriptions: deleteSubscriptions}; ch.closeSession(ctx, request)
SendCloseSessionDeleteSubscriptions ==
    /\ pc = "Ready"
    /\ Len(calls) < MaxTeardownCalls
    /\ \E deleteSubscriptions \in BOOLEAN :
          calls' = Append(calls, CloseDeleteSubscriptionsCall(deleteSubscriptions))
    /\ pc' = "AwaitCloseSession"
    /\ UNCHANGED <<opts, cli, channel, endpoints, openLocals, steps, wire, openErr, ret, enc>>

\* a call of Abort: no request, the channel aborted, nil returned
AbortCall ==
    [op |-> "Abort", arg |-> "none", request |-> <<>>, answer |-> "",
     channelClosed |-> FALSE, channelAborted |-> TRUE, returned |-> TRUE, err |-> Nil]

\* Abort that closes the session first, as Close does
AbortClosingSession ==
    /\ pc = "Ready"
    /\ ret.client = "cli"
    /\ Len(calls) < MaxTeardownCalls
    /\ calls' = Append(calls, [CloseCall(TRUE) EXCEPT !.op = "Abort"])
    /\ pc' = "AwaitCloseSession"
    /\ UNCHANGED <<opts, cli, channel, endpoints, openLocals, steps, wire, openErr, ret, enc>>

\* func (ch *Client) Abort(ctx context.Context) error, called by the owner of the client
Abort ==
    /\ pc \in { "Ready", "AwaitCloseSession" }
    /\ ret.client = "cli"
    /\ Len(calls) < MaxTeardownCalls
    /\ calls' = Append(calls, AbortCall)
    /\ channel' = [channel EXCEPT !.state = "aborted"]
    /\ UNCHANGED <<pc, opts, cli, endpoints, openLocals, steps, wire, openErr, ret, enc>>

Next ==
    \/ ApplyOptions
    \/ GetEndpoints
    \/ ChooseEndpoint
    \/ ChannelOpen
    \/ SendCreateSession
    \/ RecvCreateSession
    \/ CheckServerCertificate
    \/ VerifyServerSignature
    \/ CreateClientSignature
    \/ BuildToken
    \/ SendActivateSession
    \/ RecvActivateSession
    \/ SendRead
    \/ RecvRead
    \/ DialAbort
    \/ SendCloseSession
    \/ RecvCloseSession

Spec == Init /\ [][Next]_vars

----------------------------------------------------------------------------
(* The identity-token construction on its own, over a wider range of inputs *)

\* the remote public keys a channel may hold
RemotePublicKeys ==
    { PublicKey("server", 128, TRUE), PublicKey("server", 256, TRUE),
      PublicKey("server", 128, FALSE), NoKey }

\* identities with every length of secret up to the bound
WideIdentities ==
    { UserNameIdentity("root", Secret(n)) : n \in 0..MaxSecretLen }
    \cup { IssuedIdentity(Secret(n)) : n \in 0..MaxSecretLen }
    \cup { AnonymousIdentity,
           X509Identity(UserCertificate, PublicKey("user", 256, TRUE)),
           X509Identity(UserCertificate, PublicKey("user", 256, FALSE)) }

\* <<URI of the user-token policy, URI of the channel>>
PolicyPairs ==
    { <<"", c>> : c \in RecognizedPolicyURIs }
    \cup { <<t, SecurityPolicyURIBasic256Sha256>> :
              t \in { SecurityPolicyURINone, SecurityPolicyURIBasic128Rsa15,
                      SecurityPolicyURIAes256Sha256RsaPss, SecurityPolicyURIOther } }

\* one call of the construction with inputs of the caller's and the server's choosing
BuildTokenAlone ==
    /\ enc.kind = "idle"
    /\ pc = "Options"
    /\ \E ui \in WideIdentities, pair \in PolicyPairs, nonce \in ServerNonces,
          publickey \in RemotePublicKeys :
          LET policies == << UserTokenPolicy(<<1, TokenTypeOf(ui), pair[1]>>,
                                             TokenTypeOf(ui), pair[1]) >>
          IN  enc' = [kind |-> "built", ui |-> ui, userTokenPolicies |-> policies,
                      securityPolicyURI |-> pair[2],
                      serverCertificate |-> ServerCertificate,
                      nonce |-> nonce, publickey |-> publickey,
                      out |-> BuildIdentityToken(ui, policies, pair[2], ServerCertificate,
                                                 nonce, publickey)]
    /\ UNCHANGED <<opts, calls, pc, cli, channel, endpoints, openLocals, steps, wire, openErr, ret>>

SpecToken == Init /\ [][BuildTokenAlone]_vars

----------------------------------------------------------------------------
(* Dial with a security policy other than None and no client certificate *)

\* WithSecurityPolicyURI(uri, mode) without WithClientCertificatePaths / WithClientCertificate
ApplyOptionsWithoutCertificate ==
    /\ pc = "Options"
    /\ \E sec \in { s \in RequestedSecurity :
                       s[1] \notin { SecurityPolicyURIBestAvailable, SecurityPolicyURINone } },
          ui \in UserIdentities :
          /\ cli' = [cli EXCEPT
                !.securityPolicyURI = sec[1],
                !.securityMode = sec[2],
                !.userIdentity = ui]
          /\ opts' = cli'
          /\ pc' = "GetEndpoints"
    /\ UNCHANGED <<ret, calls, channel, endpoints, openLocals, steps, wire, openErr, enc>>

NextWithoutCertificate ==
    \/ ApplyOptionsWithoutCertificate
    \/ GetEndpoints
    \/ ChooseEndpoint
    \/ ChannelOpen
    \/ SendCreateSession
    \/ RecvCreateSession
    \/ CheckServerCertificate
    \/ VerifyServerSignature
    \/ CreateClientSignature
    \/ DialAbort

SpecWithoutCertificate == Init /\ [][NextWithoutCertificate]_vars

----------------------------------------------------------------------------
(* Dial without options, and the teardown of the client it returns *)

\* Dial(ctx, endpointURL) with no option: the defaults stay
ApplyNoOptions ==
    /\ pc = "Options"
    /\ opts' = cli
    /\ pc' = "GetEndpoints"
    /\ UNCHANGED <<cli, ret, calls, channel, endpoints, openLocals, steps, wire, openErr, enc>>

NextTeardown ==
    \/ ApplyNoOptions
    \/ GetEndpoints
    \/ ChooseEndpoint
    \/ ChannelOpen
    \/ SendCreateSession
    \/ RecvCreateSession
    \/ CheckServerCertificate
    \/ VerifyServerSignature
    \/ CreateClientSignature
    \/ BuildToken
    \/ SendActivateSession
    \/ RecvActivateSession
    \/ SendRead
    \/ RecvRead
    \/ DialAbort
    \/ SendCloseSessionWithin(MaxTeardownCalls)
    \/ SendCloseSessionDeleteSubscriptions
    \/ RecvCloseSession
    \/ Abort

SpecTeardown == Init /\ [][NextTeardown]_vars

----------------------------------------------------------------------------
(* Dial without options under a context that is cancelled during the handshake *)

BadOperationAbandoned == "BadOperationAbandoned"

\* what ch.channel.Request returns for a request in flight when ctx is cancelled
RequestOutcomeOnCancel == BadOperationAbandoned

\* the positions of open at which a service request is in flight
RequestInFlight == { "AwaitCreateSession", "AwaitActivateSession", "AwaitRead" }

\* ctx is cancelled while ch.createSession, ch.activateSession or ch.Read waits:
\* the call returns the channel's error and open returns it (if err != nil { return err })
Cancel ==
    /\ pc \in RequestInFlight
    /\ OpenFails(RequestOutcomeOnCancel)
    /\ wire' = Append(wire, "Cancelled")
    /\ UNCHANGED <<opts, calls, cli, channel, endpoints, openLocals, steps, ret, enc>>

NextCancel ==
    \/ ApplyNoOptions
    \/ GetEndpoints
    \/ ChooseEndpoint
    \/ ChannelOpen
    \/ SendCreateSession
    \/ RecvCreateSession
    \/ CheckServerCertificate
    \/ VerifyServerSignature
    \/ CreateClientSignature
    \/ BuildToken
    \/ SendActivateSession
    \/ RecvActivateSession
    \/ SendRead
    \/ RecvRead
    \/ Cancel
    \/ DialAbort

SpecCancel == Init /\ [][NextCancel]_vars

----------------------------------------------------------------------------
(* Dial with a secret to send to a server whose unsecured endpoint may carry no certificate *)

\* WithUserNameIdentity or an option for an issued token, and no other option
ApplyIdentityOption ==
    /\ pc = "Options"
    /\ \E ui \in { UserNameIdentity("root", Secret(6)), IssuedIdentity(Secret(6)) } :
          /\ cli' = [cli EXCEPT !.userIdentity = ui]
          /\ opts' = cli'
    /\ pc' = "GetEndpoints"
    /\ UNCHANGED <<ret, calls, channel, endpoints, openLocals, steps, wire, openErr, enc>>

\* a discovery response with one None/None endpoint, with or without a server
\* certificate; its single user-token policy is for a user name or an issued token
\* and names no security policy, None, or one of the five others
GetEndpointsOfPlainServer ==
    /\ pc = "GetEndpoints"
    /\ steps' = Append(steps, "GetEndpoints")
    /\ \E type \in { UserTokenTypeUserName, UserTokenTypeIssuedToken },
          uri \in { "" } \cup RecognizedPolicyURIs,
          certificate \in { <<>>, ServerCertificate } :
          endpoints' = PlainServer(<< UserTokenPolicy(<<1, type, uri>>, type, uri) >>,
                                   certificate)
    /\ wire' = wire \o <<"GetEndpointsRequest", "GetEndpointsResponse">>
    /\ pc' = "SelectEndpoint"
    /\ UNCHANGED <<ret, opts, calls, cli, channel, openLocals, openErr, enc>>

NextWithoutServerKey ==
    \/ ApplyIdentityOption
    \/ GetEndpointsOfPlainServer
    \/ ChooseEndpoint
    \/ ChannelOpen
    \/ SendCreateSession
    \/ RecvCreateSession
    \/ CheckServerCertificate
    \/ VerifyServerSignature
    \/ CreateClientSignature
    \/ BuildToken
    \/ SendActivateSession
    \/ RecvActivateSession
    \/ SendRead
    \/ RecvRead
    \/ DialAbort

SpecWithoutServerKey == Init /\ [][NextWithoutServerKey]_vars

----------------------------------------------------------------------------
(* Dial without options against a server that answers the bootstrap Read with any number of results *)

\* readResponse.Results of no, one, two or three entries
ReadResultsOfAnyLength ==
    LET good(value) == [good |-> TRUE, value |-> value]
        bad == [good |-> FALSE, value |-> BadValue]
    IN  { <<>>, << good(NamespaceArray) >>, << bad >>,
          << good(NamespaceArray), good(ServerArray), good(ServerArray) >>,
          << good(NamespaceArray), good(ServerArray), bad >>,
          << bad, bad, bad >> }
        \cup { << IF g0 THEN good(NamespaceArray) ELSE bad,
                  IF g1 THEN good(ServerArray) ELSE bad >> :
               g0 \in BOOLEAN, g1 \in BOOLEAN }

\* the tables set from the first two results of a response that holds two or more
RecvReadOfAnyLengthFirstTwo ==
    /\ pc = "AwaitRead"
    /\ \/ /\ OpenFails("BadTimeout:Read")
          /\ wire' = Append(wire, "ServiceFault")
          /\ UNCHANGED <<channel, ret, readResponse>>
       \/ \E results \in ReadResultsOfAnyLength :
             /\ readResponse' = results
             /\ channel' =
                   IF Len(results) >= 2
                   THEN [channel EXCEPT
                           !.namespaceURIs =
                               IF results[1].good THEN results[1].value ELSE @,
                           !.serverURIs =
                               IF results[2].good THEN results[2].value ELSE @]
                   ELSE channel
             /\ wire' = Append(wire, "ReadResponse")
             /\ pc' = "Ready"
             /\ ret' = Returned("cli", Nil)
             /\ UNCHANGED openErr
    /\ UNCHANGED <<opts, calls, cli, endpoints, localNonce, remoteNonce, createSessionRequest,
                   createSessionResponse, clientSignature, tokenResult,
                   activateSessionRequest, steps, enc>>

\* from the return of ch.Read to return nil, and Dial's return cli, nil
RecvReadOfAnyLength ==
    /\ pc = "AwaitRead"
    /\ \/ /\ OpenFails("BadTimeout:Read")
          /\ wire' = Append(wire, "ServiceFault")
          /\ UNCHANGED <<channel, ret, readResponse>>
       \/ \E results \in ReadResultsOfAnyLength :
             /\ readResponse' = results
             /\ channel' =
                   IF Len(results) = 2
                   THEN [channel EXCEPT
                           !.namespaceURIs =
                               IF results[1].good THEN results[1].value ELSE @,
                           !.serverURIs =
                               IF results[2].good THEN results[2].value ELSE @]
                   ELSE channel
             /\ wire' = Append(wire, "ReadResponse")
             /\ pc' = "Ready"
             /\ ret' = Returned("cli", Nil)
             /\ UNCHANGED openErr
    /\ UNCHANGED <<opts, calls, cli, endpoints, localNonce, remoteNonce, createSessionRequest,
                   createSessionResponse, clientSignature, tokenResult,
                   activateSessionRequest, steps, enc>>

NextBootstrap ==
    \/ ApplyNoOptions
    \/ GetEndpoints
    \/ ChooseEndpoint
    \/ ChannelOpen
    \/ SendCreateSession
    \/ RecvCreateSession
    \/ CheckServerCertificate
    \/ VerifyServerSignature
    \/ CreateClientSignature
    \/ BuildToken
    \/ SendActivateSession
    \/ RecvActivateSession
    \/ SendRead
    \/ RecvReadOfAnyLength
    \/ DialAbort

SpecBootstrap == Init /\ [][NextBootstrap]_vars

----------------------------------------------------------------------------
(* Dial without a certificate and without a policy against servers with secured endpoints *)

\* WithSecurityPolicyURI("", mode) or no option at all, and no certificate option
ApplyModeOption ==
    /\ pc = "Options"
    /\ \E mode \in { MessageSecurityModeInvalid, MessageSecurityModeNone,
                     MessageSecurityModeSign, MessageSecurityModeSignAndEncrypt } :
          /\ cli' = [cli EXCEPT !.securityMode = mode]
          /\ opts' = cli'
    /\ pc' = "GetEndpoints"
    /\ UNCHANGED <<ret, calls, channel, endpoints, openLocals, steps, wire, openErr, enc>>

\* discovery responses with and without a None/None endpoint: endpoints that sign
\* or encrypt and one of a policy the client does not know; endpoints that are None
\* in the policy or in the mode, not in both; the unsecured endpoint, given the
\* highest securityLevel of the list it is in
GetEndpointsOfSecuredServer ==
    /\ pc = "GetEndpoints"
    /\ steps' = Append(steps, "GetEndpoints")
    /\ LET tokens == << UserTokenPolicy(<<1, UserTokenTypeAnonymous, "">>,
                                        UserTokenTypeAnonymous, "") >>
           endpoint(uri, mode, level) ==
               EndpointDescription(ServerURL, uri, mode, ServerCertificate, tokens, level)
           secured ==
               << endpoint(SecurityPolicyURIBasic256Sha256, MessageSecurityModeSignAndEncrypt, 3),
                  endpoint(SecurityPolicyURIBasic256, MessageSecurityModeSign, 2),
                  endpoint(SecurityPolicyURIOther, MessageSecurityModeNone, 0) >>
           halfSecured ==
               << endpoint(SecurityPolicyURINone, MessageSecurityModeSign, 0),
                  endpoint(SecurityPolicyURIBasic256, MessageSecurityModeNone, 1) >>
           unsecured ==
               << endpoint(SecurityPolicyURINone, MessageSecurityModeNone, 4) >>
       IN  \E list \in { secured, halfSecured, secured \o halfSecured },
              last \in { <<>>, unsecured } :
              endpoints' = list \o last
    /\ wire' = wire \o <<"GetEndpointsRequest", "GetEndpointsResponse">>
    /\ pc' = "SelectEndpoint"
    /\ UNCHANGED <<ret, opts, calls, cli, channel, openLocals, openErr, enc>>

NextSecuredServer ==
    \/ ApplyModeOption
    \/ GetEndpointsOfSecuredServer
    \/ ChooseEndpoint
    \/ ChannelOpen
    \/ SendCreateSession
    \/ RecvCreateSession
    \/ CheckServerCertificate
    \/ VerifyServerSignature
    \/ CreateClientSignature
    \/ BuildToken
    \/ SendActivateSession
    \/ RecvActivateSession
    \/ SendRead
    \/ RecvRead
    \/ DialAbort

SpecSecuredServer == Init /\ [][NextSecuredServer]_vars

----------------------------------------------------------------------------
(* Properties *)

StepDone(s) == \E i \in 1..Len(steps) : steps[i] = s
OnWire(m) == \E i \in 1..Len(wire) : wire[i] = m
ResponseReceived == OnWire("CreateSessionResponse")
DialFailedWith(err) == ret.returned /\ ret.client = "nil" /\ ret.err = err

\* C1: when the serverCertificate of the CreateSessionResponse differs from the
\* serverCertificate of the selected endpoint, open stops with BadCertificateInvalid,
\* Dial returns that error with a nil client, and no ActivateSessionRequest is sent.
C1_CertificatePinning ==
    (ResponseReceived /\ createSessionResponse.serverCertificate # cli.serverCertificate)
        => /\ ~OnWire("ActivateSessionRequest")
           /\ pc \in { "CheckCertificate", "OpenFailed", "Returned" }
           /\ pc # "CheckCertificate" => openErr = BadCertificateInvalid
           /\ ret.returned => DialFailedWith(BadCertificateInvalid)

C1_Witness ==
    /\ ResponseReceived
    /\ createSessionResponse.serverCertificate = ForeignCertificate
    /\ cli.serverCertificate = ServerCertificate
    /\ DialFailedWith(BadCertificateInvalid)
    /\ channel.state = "aborted"

\* the signature scheme of each channel policy, from the table of policies
ChannelSignatureScheme(uri) ==
    CASE uri \in { SecurityPolicyURIBasic128Rsa15, SecurityPolicyURIBasic256 } ->
            SchemeSha1Pkcs1v15
      [] uri \in { SecurityPolicyURIBasic256Sha256, SecurityPolicyURIAes128Sha256RsaOaep } ->
            SchemeSha256Pkcs1v15
      [] uri = SecurityPolicyURIAes256Sha256RsaPss -> SchemeSha256Pss

\* the one signature the server's key produces over clientCertificate || clientNonce
\* of the CreateSessionRequest under the channel policy
ExpectedServerSignature ==
    RsaSign(CertificateKey(cli.serverCertificate).owner,
            ChannelSignatureScheme(cli.securityPolicyURI),
            createSessionRequest.clientCertificate \o createSessionRequest.clientNonce)

\* C2: on a channel with a policy other than None, open goes past the verification
\* only with a server signature made over clientCertificate || clientNonce of the
\* CreateSessionRequest under the hash and padding of the channel policy; with any
\* other signature it stops with BadApplicationSignatureInvalid and no
\* ActivateSessionRequest is sent.
C2_ServerSignatureVerified ==
    (StepDone("VerifyServerSignature") /\ cli.securityPolicyURI # SecurityPolicyURINone)
        => IF createSessionResponse.serverSignature.signature = ExpectedServerSignature
           THEN openErr # BadApplicationSignatureInvalid
           ELSE /\ openErr = BadApplicationSignatureInvalid
                /\ ~OnWire("ActivateSessionRequest")
                /\ pc \in { "OpenFailed", "Returned" }
                /\ ret.returned => DialFailedWith(BadApplicationSignatureInvalid)

\* a signature under the scheme of the user-token policy, not of the channel, is refused
C2_Witness ==
    /\ cli.securityPolicyURI = SecurityPolicyURIBasic256Sha256
    /\ Len(cli.userTokenPolicies) > 0
    /\ cli.userTokenPolicies[1].securityPolicyURI = SecurityPolicyURIBasic128Rsa15
    /\ createSessionResponse.serverSignature.signature =
          RsaSign("server", SchemeSha1Pkcs1v15,
                  createSessionRequest.clientCertificate \o createSessionRequest.clientNonce)
    /\ DialFailedWith(BadApplicationSignatureInvalid)
    /\ ~OnWire("ActivateSessionRequest")

\* the errors each step can end with
StepErrors(step) ==
    CASE step = "GetEndpoints" -> { "BadTimeout:GetEndpoints" }
      [] step = "SelectEndpoint" -> { BadSecurityModeRejected }
      [] step = "ChannelOpen" -> { "BadConnectionClosed:Open" }
      [] step = "CreateSession" -> { "BadTimeout:CreateSession" }
      [] step = "CheckServerCertificate" -> { BadCertificateInvalid }
      [] step = "VerifyServerSignature" -> { BadApplicationSignatureInvalid }
      [] step = "ClientSignature" -> { SignError }
      [] step = "BuildIdentityToken" -> { BadIdentityTokenRejected, EncryptError, SignError }
      [] step = "ActivateSession" -> { "BadIdentityTokenInvalid:ActivateSession" }
      [] step = "Read" -> { "BadTimeout:Read" }

NoStepTwice == \A i, j \in 1..Len(steps) : steps[i] = steps[j] => i = j
NoRequestTwice ==
    \A i, j \in 1..Len(wire) : (wire[i] = wire[j] /\ wire[i] # "ServiceFault") => i = j

\* C3 as stated: a failure of any step, endpoint discovery and endpoint selection
\* included, aborts the channel and Dial returns the step's error with a nil client.
C3_EveryFailureAborts ==
    (ret.returned /\ ret.err # Nil /\ Len(steps) > 0)
        => /\ channel.state = "aborted"
           /\ ret.client = "nil"
           /\ ret.err \in StepErrors(steps[Len(steps)])

\* C3 amended: a failure of a step of open (channel open, CreateSession, certificate
\* check, signature verification, token construction, ActivateSession, namespace
\* read) aborts the channel; a failure of endpoint discovery or endpoint selection
\* comes before the channel exists and aborts nothing; in both cases Dial returns
\* the error of the step that failed with a nil client, and no step runs twice.
C3_FailureReturnsStepError ==
    /\ NoStepTwice
    /\ NoRequestTwice
    /\ (ret.returned /\ ret.err # Nil /\ Len(steps) > 0)
          => /\ ret.client = "nil"
             /\ ret.err \in StepErrors(steps[Len(steps)])
             /\ IF StepDone("ChannelOpen")
                THEN channel.state = "aborted"
                ELSE channel.state = "nil"

C3_Witness ==
    /\ DialFailedWith("BadIdentityTokenInvalid:ActivateSession")
    /\ steps[Len(steps)] = "ActivateSession"
    /\ channel.state = "aborted"

\* the steps the ordering is stated for, in their order
HandshakeOrder ==
    << "GetEndpoints", "SelectEndpoint", "ChannelOpen", "CreateSession",
       "CheckServerCertificate", "VerifyServerSignature", "BuildIdentityToken",
       "ActivateSession", "Read" >>

RequestOrder ==
    << "GetEndpointsRequest", "CreateSessionRequest", "ActivateSessionRequest",
       "ReadRequest" >>

IsPrefix(a, b) == Len(a) <= Len(b) /\ a = SubSeq(b, 1, Len(a))

Requests == { RequestOrder[i] : i \in 1..Len(RequestOrder) }
ResponseOf(request) ==
    CASE request = "GetEndpointsRequest" -> "GetEndpointsResponse"
      [] request = "CreateSessionRequest" -> "CreateSessionResponse"
      [] request = "ActivateSessionRequest" -> "ActivateSessionResponse"
      [] request = "ReadRequest" -> "ReadResponse"

\* C4: the steps run in the fixed order, each at most once and none left out; the
\* requests go out in the order GetEndpoints, CreateSession, ActivateSession, Read;
\* every request is answered (or has failed) before the next one is sent, and a
\* request is sent only after the answer to the one before it was a response.
C4_HandshakeOrdering ==
    /\ IsPrefix(SelectSeq(steps, LAMBDA x : x # "ClientSignature"), HandshakeOrder)
    /\ IsPrefix(SelectSeq(wire, LAMBDA m : m \in Requests), RequestOrder)
    /\ \A i \in 1..Len(wire) :
          /\ (i % 2 = 1) = (wire[i] \in Requests)
          /\ (i % 2 = 0) => wire[i] \in { ResponseOf(wire[i - 1]), "ServiceFault" }
          /\ (i % 2 = 0 /\ i < Len(wire)) => wire[i] # "ServiceFault"
    /\ OnWire("ActivateSessionRequest") =>
          /\ StepDone("VerifyServerSignature")
          /\ StepDone("BuildIdentityToken")
          /\ createSessionResponse.serverCertificate = cli.serverCertificate

C4_Witness ==
    /\ pc = "Ready"
    /\ SelectSeq(steps, LAMBDA x : x # "ClientSignature") = HandshakeOrder
    /\ Len(wire) = 8

\* the token type that goes with each identity variant
TokenTypeFor(identityType) ==
    CASE identityType = "Anonymous" -> UserTokenTypeAnonymous
      [] identityType = "UserName" -> UserTokenTypeUserName
      [] identityType = "X509" -> UserTokenTypeCertificate
      [] identityType = "Issued" -> UserTokenTypeIssuedToken

MatchingPolicies ==
    { i \in 1..Len(cli.userTokenPolicies) :
        cli.userTokenPolicies[i].tokenType = TokenTypeFor(cli.userIdentity.type) }

FirstMatchingPolicy ==
    cli.userTokenPolicies[CHOOSE i \in MatchingPolicies : \A j \in MatchingPolicies : i <= j]

\* C5: once the token construction has run, either no entry of the endpoint's
\* userIdentityTokens has the token type of the configured identity, open has stopped
\* with BadIdentityTokenRejected, no ActivateSessionRequest is sent and Dial returns
\* that error with the channel aborted; or the token built carries the policy id of
\* the first entry with that token type.
C5_TokenPolicySelection ==
    StepDone("BuildIdentityToken")
        => IF MatchingPolicies = {}
           THEN /\ openErr = BadIdentityTokenRejected
                /\ ~OnWire("ActivateSessionRequest")
                /\ ret.returned =>
                      DialFailedWith(BadIdentityTokenRejected) /\ channel.state = "aborted"
           ELSE tokenResult.err = Nil =>
                   /\ tokenResult.identityToken.policyID = FirstMatchingPolicy.policyID
                   /\ tokenResult.identityToken.type = cli.userIdentity.type

\* two entries match and the first is taken
C5_Witness ==
    /\ OnWire("ActivateSessionRequest")
    /\ Cardinality(MatchingPolicies) = 2
    /\ activateSessionRequest.userIdentityToken.policyID = cli.userTokenPolicies[1].policyID

\* the policy that protects the token: the URI of the first matching user-token
\* policy, the channel's when that is empty
ProtectingPolicy ==
    IF FirstMatchingPolicy.securityPolicyURI # ""
    THEN FirstMatchingPolicy.securityPolicyURI
    ELSE cli.securityPolicyURI

\* C6 as stated: the UserName password goes out as plaintext bytes with an empty
\* encryptionAlgorithm only when the effective token policy is None; under every
\* other effective policy URI the password field holds RSA ciphertext.
C6_PlaintextPasswordOnlyUnderNone ==
    (OnWire("ActivateSessionRequest")
        /\ activateSessionRequest.userIdentityToken.type = "UserName")
        => LET token == activateSessionRequest.userIdentityToken
           IN  IF ProtectingPolicy = SecurityPolicyURINone
               THEN /\ token.data = PlainBytes(cli.userIdentity.secret)
                    /\ token.encryptionAlgorithm = ""
               ELSE /\ token.data.plain = <<>>
                    /\ Len(token.data.cipher) > 0
                    /\ token.encryptionAlgorithm # ""

\* the padding a server decrypts with, by the encryptionAlgorithm of the token
PaddingOfAlgorithm(algorithm) ==
    CASE algorithm = RsaV15KeyWrap -> PaddingPkcs1v15
      [] algorithm = RsaOaepKeyWrap -> PaddingOaepSha1
      [] algorithm = RsaOaepSha256KeyWrap -> PaddingOaepSha256

\* ceil(a / b)
CeilDiv(a, b) == (a + b - 1) \div b

\* the inputs of the construction on its own
EncPolicyURI ==
    IF enc.userTokenPolicies[1].securityPolicyURI # ""
    THEN enc.userTokenPolicies[1].securityPolicyURI
    ELSE enc.securityPolicyURI

EncEncrypted ==
    /\ enc.kind = "built"
    /\ enc.ui.type \in { "UserName", "Issued" }
    /\ enc.out.err = Nil
    /\ enc.out.identityToken.encryptionAlgorithm # ""

\* the blocks are cut for overhead o: every block but the last is handed
\* size - o bytes, no block more, and there are ceil(L / (size - o)) of them
BlocksCutFor(blocks, size, o, L) ==
    /\ Len(blocks) = CeilDiv(L, size - o)
    /\ \A i \in 1..Len(blocks) :
          /\ blocks[i].size = size
          /\ Len(blocks[i].pt) <= size - o
          /\ i < Len(blocks) => Len(blocks[i].pt) = size - o

\* C7: a UserName or Issued token built without error has encryptionAlgorithm
\* RsaV15KeyWrap and blocks cut for overhead 11 under Basic128Rsa15, RsaOaepKeyWrap
\* and overhead 42 under Basic256, Basic256Sha256 and Aes128Sha256RsaOaep,
\* RsaOaepSha256KeyWrap and overhead 66 under Aes256Sha256RsaPss.
C7_EncryptionParameters ==
    (enc.kind = "built" /\ enc.ui.type \in { "UserName", "Issued" } /\ enc.out.err = Nil)
        => LET token == enc.out.identityToken
               L == 4 + Len(enc.ui.secret) + Len(enc.nonce)
               Cut(o) == BlocksCutFor(token.data.cipher, enc.publickey.size, o, L)
           IN  /\ EncPolicyURI = SecurityPolicyURIBasic128Rsa15
                     => token.encryptionAlgorithm = RsaV15KeyWrap /\ Cut(11)
               /\ EncPolicyURI \in { SecurityPolicyURIBasic256,
                                     SecurityPolicyURIBasic256Sha256,
                                     SecurityPolicyURIAes128Sha256RsaOaep }
                     => token.encryptionAlgorithm = RsaOaepKeyWrap /\ Cut(42)
               /\ EncPolicyURI = SecurityPolicyURIAes256Sha256RsaPss
                     => token.encryptionAlgorithm = RsaOaepSha256KeyWrap /\ Cut(66)

C7_Witness ==
    /\ EncEncrypted
    /\ enc.ui.type = "Issued"
    /\ EncPolicyURI = SecurityPolicyURIBasic256
    /\ enc.out.identityToken.encryptionAlgorithm = RsaOaepKeyWrap
    /\ Len(enc.out.identityToken.data.cipher) = 2

\* the plaintext P: length prefix, secret, server nonce
PlaintextOf(secret, nonce) ==
    << (Len(secret) + Len(nonce)) % 256, ((Len(secret) + Len(nonce)) \div 256) % 256,
       ((Len(secret) + Len(nonce)) \div 65536) % 256, 0 >> \o secret \o nonce

\* C8 as stated: decrypting the blocks of the token in order and concatenating the
\* results gives exactly P, with no bytes before or after it.
C8_ChunkedRoundTrip ==
    EncEncrypted
        => DecryptBlocks(enc.publickey.owner,
                         PaddingOfAlgorithm(enc.out.identityToken.encryptionAlgorithm),
                         enc.out.identityToken.data.cipher)
           = PlaintextOf(enc.ui.secret, enc.nonce)

\* what the server recovers from the token of the ActivateSessionRequest
DecryptedToken ==
    DecryptBlocks(CertificateKey(cli.serverCertificate).owner,
                  PaddingOfAlgorithm(activateSessionRequest.userIdentityToken.encryptionAlgorithm),
                  activateSessionRequest.userIdentityToken.data.cipher)

\* C9: the bytes encrypted for a UserName or Issued token begin with four bytes
\* that read, least significant first, as len(secret) + len(serverNonce), go on with
\* the secret and then with the serverNonce of the CreateSessionResponse.
C9_LengthPrefixedPlaintext ==
    (OnWire("ActivateSessionRequest")
        /\ activateSessionRequest.userIdentityToken.type \in { "UserName", "Issued" }
        /\ activateSessionRequest.userIdentityToken.encryptionAlgorithm # "")
        => LET d == DecryptedToken
               secret == cli.userIdentity.secret
               nonce == createSessionResponse.serverNonce
           IN  /\ Len(d) >= 4 + Len(secret) + Len(nonce)
               /\ d[1] + 256 * d[2] + 65536 * d[3] + 16777216 * d[4]
                     = Len(secret) + Len(nonce)
               /\ SubSeq(d, 5, 4 + Len(secret)) = secret
               /\ SubSeq(d, 5 + Len(secret), 4 + Len(secret) + Len(nonce)) = nonce

C9_Witness ==
    /\ OnWire("ActivateSessionRequest")
    /\ activateSessionRequest.userIdentityToken.type = "UserName"
    /\ activateSessionRequest.userIdentityToken.encryptionAlgorithm = RsaOaepSha256KeyWrap
    /\ Len(createSessionResponse.serverNonce) = 32
    /\ SubSeq(DecryptedToken, 1, 4) = <<38, 0, 0, 0>>

\* the scheme and the algorithm URI of the user-token signature, by effective policy
UserSignatureScheme(uri) ==
    CASE uri \in { SecurityPolicyURIBasic128Rsa15, SecurityPolicyURIBasic256 } ->
            <<SchemeSha1Pkcs1v15, RsaSha1Signature>>
      [] uri \in { SecurityPolicyURIBasic256Sha256, SecurityPolicyURIAes128Sha256RsaOaep } ->
            <<SchemeSha256Pkcs1v15, RsaSha256Signature>>
      [] uri = SecurityPolicyURIAes256Sha256RsaPss ->
            <<SchemeSha256Pss, RsaPssSha256Signature>>

\* C10: for an X.509 identity the ActivateSessionRequest carries
\* X509IdentityToken{certificateData, policyId} and a user-token signature made with
\* the user's private key over serverCertificate || serverNonce, under SHA-1 with
\* PKCS#1 v1.5 (RsaSha1Signature) for Basic128Rsa15 and Basic256, SHA-256 with
\* PKCS#1 v1.5 (RsaSha256Signature) for Basic256Sha256 and Aes128Sha256RsaOaep,
\* SHA-256 with PSS (RsaPssSha256Signature) for Aes256Sha256RsaPss; the signature is
\* empty for the effective policy None.
C10_X509ProofOfPossession ==
    (OnWire("ActivateSessionRequest") /\ cli.userIdentity.type = "X509")
        => LET token == activateSessionRequest.userIdentityToken
               signature == activateSessionRequest.userTokenSignature
           IN  /\ token = [type |-> "X509", policyID |-> FirstMatchingPolicy.policyID,
                           userName |-> "", data |-> PlainBytes(cli.userIdentity.secret),
                           encryptionAlgorithm |-> ""]
               /\ ProtectingPolicy = SecurityPolicyURINone
                     => signature = EmptySignatureData
               /\ ProtectingPolicy \in RecognizedPolicyURIs \ { SecurityPolicyURINone }
                     => /\ signature.algorithm = UserSignatureScheme(ProtectingPolicy)[2]
                        /\ signature.signature =
                              RsaSign(cli.userIdentity.key.owner,
                                      UserSignatureScheme(ProtectingPolicy)[1],
                                      createSessionResponse.serverCertificate
                                          \o createSessionResponse.serverNonce)

C10_Witness ==
    /\ OnWire("ActivateSessionRequest")
    /\ cli.userIdentity.type = "X509"
    /\ cli.securityPolicyURI = SecurityPolicyURIAes256Sha256RsaPss
    /\ ProtectingPolicy = SecurityPolicyURIAes256Sha256RsaPss
    /\ activateSessionRequest.userTokenSignature.algorithm = RsaPssSha256Signature
    /\ Len(createSessionResponse.serverNonce) = 32

\* the algorithm URI that names a signature scheme
AlgorithmOfScheme(scheme) ==
    CASE scheme = SchemeSha1Pkcs1v15 -> RsaSha1Signature
      [] scheme = SchemeSha256Pkcs1v15 -> RsaSha256Signature
      [] scheme = SchemeSha256Pss -> RsaPssSha256Signature

\* C11: the ClientSignature of an ActivateSessionRequest is made with the client's
\* private key over serverCertificate || serverNonce of the CreateSessionResponse
\* under the hash and padding of the channel policy, and has neither signature nor
\* algorithm when the channel policy is None.
C11_ClientSignature ==
    OnWire("ActivateSessionRequest")
        => IF cli.securityPolicyURI = SecurityPolicyURINone
           THEN /\ activateSessionRequest.clientSignature.signature = NoSignature
                /\ activateSessionRequest.clientSignature.algorithm = ""
           ELSE /\ activateSessionRequest.clientSignature.signature =
                      RsaSign("client", ChannelSignatureScheme(cli.securityPolicyURI),
                              createSessionResponse.serverCertificate
                                  \o createSessionResponse.serverNonce)
                /\ activateSessionRequest.clientSignature.algorithm =
                      AlgorithmOfScheme(ChannelSignatureScheme(cli.securityPolicyURI))

\* a signed request on a Basic256 channel whose user-token policy names another URI
C11_Witness ==
    /\ OnWire("ActivateSessionRequest")
    /\ cli.securityPolicyURI = SecurityPolicyURIBasic256
    /\ ProtectingPolicy # cli.securityPolicyURI
    /\ Len(createSessionResponse.serverNonce) = 32
    /\ activateSessionRequest.clientSignature.algorithm = RsaSha1Signature

\* the encryptionAlgorithm a policy gives a UserName or Issued token
KeyWrapOf(uri) ==
    CASE uri = SecurityPolicyURINone -> ""
      [] uri = SecurityPolicyURIBasic128Rsa15 -> RsaV15KeyWrap
      [] uri \in { SecurityPolicyURIBasic256, SecurityPolicyURIBasic256Sha256,
                   SecurityPolicyURIAes128Sha256RsaOaep } -> RsaOaepKeyWrap
      [] uri = SecurityPolicyURIAes256Sha256RsaPss -> RsaOaepSha256KeyWrap

\* the algorithm a policy gives the user-token signature of an X.509 token
TokenSignatureAlgorithmOf(uri) ==
    IF uri = SecurityPolicyURINone THEN "" ELSE UserSignatureScheme(uri)[2]

\* C12: the token of a UserName, X.509 or Issued identity is protected under the
\* securityPolicyUri of the selected user-token policy when that is not empty and
\* under the channel's policy when it is: the encryptionAlgorithm, or for X.509 the
\* algorithm of the user-token signature, is the one of that policy.
C12_EffectiveTokenPolicy ==
    (OnWire("ActivateSessionRequest")
        /\ cli.userIdentity.type \in { "UserName", "X509", "Issued" })
        => LET uri == FirstMatchingPolicy.securityPolicyURI
               effective == IF uri # "" THEN uri ELSE cli.securityPolicyURI
           IN  effective \in RecognizedPolicyURIs
                  => IF cli.userIdentity.type = "X509"
                     THEN activateSessionRequest.userTokenSignature.algorithm
                              = TokenSignatureAlgorithmOf(effective)
                     ELSE activateSessionRequest.userIdentityToken.encryptionAlgorithm
                              = KeyWrapOf(effective)

\* a certificate policy naming Basic128Rsa15 on a channel that signs with SHA-256
C12_Witness ==
    /\ OnWire("ActivateSessionRequest")
    /\ cli.userIdentity.type = "X509"
    /\ FirstMatchingPolicy.securityPolicyURI = SecurityPolicyURIBasic128Rsa15
    /\ cli.securityPolicyURI = SecurityPolicyURIBasic256Sha256
    /\ activateSessionRequest.userTokenSignature.algorithm = RsaSha1Signature
    /\ activateSessionRequest.clientSignature.algorithm = RsaSha256Signature

\* the UserName construction on the inputs of an Issued one: the password is the
\* token data and the user-token policy differs in its type only
UserNameTwin ==
    BuildIdentityToken(
        UserNameIdentity("root", enc.ui.secret),
        << UserTokenPolicy(enc.userTokenPolicies[1].policyID, UserTokenTypeUserName,
                           enc.userTokenPolicies[1].securityPolicyURI) >>,
        enc.securityPolicyURI, enc.serverCertificate, enc.nonce, enc.publickey)

\* C13: for every effective policy, server nonce and remote public key, an Issued
\* identity ends as a UserName identity with the same secret does: the same error,
\* or the same bytes in tokenData as in password (plain or encrypted), the same
\* encryptionAlgorithm and an empty user-token signature.
C13_IssuedAsUserName ==
    (enc.kind = "built" /\ enc.ui.type = "Issued")
        => /\ enc.out.err = UserNameTwin.err
           /\ enc.out.identityToken.data = UserNameTwin.identityToken.data
           /\ enc.out.identityToken.encryptionAlgorithm
                 = UserNameTwin.identityToken.encryptionAlgorithm
           /\ enc.out.identityTokenSignature = EmptySignatureData
           /\ UserNameTwin.identityTokenSignature = EmptySignatureData
           /\ enc.out.err = Nil
                 => /\ enc.out.identityToken.type = "Issued"
                    /\ UserNameTwin.identityToken.type = "UserName"

\* an Issued token encrypted in three blocks under Aes256Sha256RsaPss
C13_Witness ==
    /\ EncEncrypted
    /\ enc.ui.type = "Issued"
    /\ EncPolicyURI = SecurityPolicyURIAes256Sha256RsaPss
    /\ enc.out.identityToken.encryptionAlgorithm = RsaOaepSha256KeyWrap
    /\ Len(enc.out.identityToken.data.cipher) = 3

\* the request the selector works with: the policy and mode of the options, and
\* None / None in their place for BestAvailable without a local certificate
RequestedPolicy ==
    IF opts.securityPolicyURI = SecurityPolicyURIBestAvailable /\ opts.localCertificate = <<>>
    THEN SecurityPolicyURINone ELSE opts.securityPolicyURI

RequestedMode ==
    IF opts.securityPolicyURI = SecurityPolicyURIBestAvailable /\ opts.localCertificate = <<>>
    THEN MessageSecurityModeNone ELSE opts.securityMode

\* the three conditions of the selection filter
Fits(e) ==
    /\ e.securityPolicyURI \in RecognizedPolicyURIs
    /\ (RequestedPolicy = "" \/ e.securityPolicyURI = RequestedPolicy)
    /\ (RequestedMode = MessageSecurityModeInvalid \/ e.securityMode = RequestedMode)

\* Dial has selected an endpoint / the client c carries what endpoint e describes
EndpointSelected == StepDone("SelectEndpoint") /\ channel.state # "nil"
Carries(c, e) ==
    /\ c.securityPolicyURI = e.securityPolicyURI
    /\ c.securityMode = e.securityMode
    /\ c.serverCertificate = e.serverCertificate
    /\ c.userTokenPolicies = e.userIdentityTokens

C15_NoEndpointRejected ==
    (StepDone("SelectEndpoint") /\ \A i \in 1..Len(endpoints) : ~Fits(endpoints[i]))
        => /\ ret = Returned("nil", BadSecurityModeRejected)
           /\ pc = "Returned"
           /\ channel = NoChannel
           /\ ~StepDone("ChannelOpen")
           /\ wire = <<"GetEndpointsRequest", "GetEndpointsResponse">>

\* a server that offers the requested policy, but not in the requested mode
C15_Witness ==
    /\ DialFailedWith(BadSecurityModeRejected)
    /\ opts.securityPolicyURI = SecurityPolicyURIBasic256
    /\ opts.securityMode = MessageSecurityModeSignAndEncrypt
    /\ \E i \in 1..Len(endpoints) : endpoints[i].securityPolicyURI = SecurityPolicyURIBasic256
    /\ channel = NoChannel

\* C16: without a local certificate and with the policy BestAvailable, whatever
\* the mode asked for, selection on a response that holds an endpoint with policy
\* None and mode None ends with an endpoint of policy None and mode None.
C16_PolicyCoercion ==
    (StepDone("SelectEndpoint")
        /\ opts.localCertificate = <<>>
        /\ opts.securityPolicyURI = SecurityPolicyURIBestAvailable
        /\ \E i \in 1..Len(endpoints) :
              /\ endpoints[i].securityPolicyURI = SecurityPolicyURINone
              /\ endpoints[i].securityMode = MessageSecurityModeNone)
        => /\ EndpointSelected
           /\ cli.securityPolicyURI = SecurityPolicyURINone
           /\ cli.securityMode = MessageSecurityModeNone
           /\ channel.securityPolicyURI = SecurityPolicyURINone
           /\ channel.securityMode = MessageSecurityModeNone

\* the caller asked for SignAndEncrypt and the server offers encrypting endpoints
C16_Witness ==
    /\ EndpointSelected
    /\ opts.localCertificate = <<>>
    /\ opts.securityPolicyURI = SecurityPolicyURIBestAvailable
    /\ opts.securityMode = MessageSecurityModeSignAndEncrypt
    /\ Len(endpoints) = 7
    /\ cli.securityMode = MessageSecurityModeNone

\* the endpoints of a list the inputs single out: those that pass the filter, have
\* the lowest securityLevel of those that do, and come first among these in the list
Determined(list) ==
    { i \in 1..Len(list) :
        /\ Fits(list[i])
        /\ \A j \in 1..Len(list) :
              Fits(list[j])
                 => \/ list[j].securityLevel > list[i].securityLevel
                    \/ list[j].securityLevel = list[i].securityLevel /\ j >= i }

\* C17: the outcome of the selection is a function of the endpoint list in the order
\* received, the requested policy and mode and the presence of a certificate: it
\* fails when no endpoint passes the filter, and otherwise takes the one endpoint
\* these inputs single out, also when several that pass share a securityLevel.
C17_SelectionDeterministic ==
    [][ pc = "SelectEndpoint"
           => IF Determined(endpoints) = {}
              THEN channel' = NoChannel /\ ret' = Returned("nil", BadSecurityModeRejected)
              ELSE /\ Cardinality(Determined(endpoints)) = 1
                   /\ \A i \in Determined(endpoints) : Carries(cli', endpoints[i])
                   /\ channel'.state = "created" ]_vars

\* two encrypting endpoints share the lowest level and the first listed is taken
C17_Witness ==
    /\ EndpointSelected
    /\ opts.securityPolicyURI = SecurityPolicyURIBestAvailable
    /\ opts.securityMode = MessageSecurityModeSignAndEncrypt
    /\ opts.localCertificate # <<>>
    /\ cli.securityPolicyURI = SecurityPolicyURIBasic128Rsa15
    /\ \E i, j \in 1..Len(endpoints) :
          /\ i # j
          /\ Fits(endpoints[i]) /\ Fits(endpoints[j])
          /\ endpoints[i].securityLevel = endpoints[j].securityLevel
          /\ \A k \in 1..Len(endpoints) :
                Fits(endpoints[k]) => endpoints[k].securityLevel >= endpoints[i].securityLevel

\* C18: the URL the secure channel is given, and the one sent in the
\* CreateSessionRequest, is the URL passed to Dial when forcedEndpoint is set and the
\* endpointUrl of the selected endpoint otherwise; either way the channel's policy,
\* mode and server certificate and the client's user-token policies are those of
\* the selected endpoint.
C18_ForcedEndpoint ==
    EndpointSelected
        => \E i \in 1..Len(endpoints) :
              LET url == IF opts.forcedEndpoint THEN DiscoveryURL
                         ELSE endpoints[i].endpointURL
              IN  /\ Fits(endpoints[i])
                  /\ channel.endpointURL = url
                  /\ cli.endpointURL = url
                  /\ OnWire("CreateSessionRequest") => createSessionRequest.endpointURL = url
                  /\ channel.securityPolicyURI = endpoints[i].securityPolicyURI
                  /\ channel.securityMode = endpoints[i].securityMode
                  /\ channel.remoteCertificate = endpoints[i].serverCertificate
                  /\ cli.userTokenPolicies = endpoints[i].userIdentityTokens

\* a forced URL on a secured endpoint that advertises another URL
C18_Witness ==
    /\ OnWire("CreateSessionRequest")
    /\ opts.forcedEndpoint
    /\ createSessionRequest.endpointURL = DiscoveryURL
    /\ \A i \in 1..Len(endpoints) : endpoints[i].endpointURL # DiscoveryURL
    /\ channel.securityPolicyURI = SecurityPolicyURIBasic256Sha256
    /\ channel.remoteCertificate = ServerCertificate

\* Dial has returned a client
DialSucceeded == ret.returned /\ ret.client = "cli" /\ ret.err = Nil

\* C19: after a successful Dial, SecurityPolicyURI() and SecurityMode() give the
\* policy and mode of the selected endpoint: the policy and mode asked for when the
\* caller named them, None and None when neither a policy nor a certificate was
\* given; and a Close that follows, once the server has answered its
\* CloseSessionRequest, returns nil with the channel closed.
C19_NegotiatedSecurity ==
    DialSucceeded
        => /\ \E i \in 1..Len(endpoints) :
                 /\ Fits(endpoints[i])
                 /\ SecurityPolicyURI(cli) = endpoints[i].securityPolicyURI
                 /\ SecurityMode(cli) = endpoints[i].securityMode
           /\ (opts.securityPolicyURI # SecurityPolicyURIBestAvailable
                  /\ opts.securityMode # MessageSecurityModeInvalid)
                 => /\ SecurityPolicyURI(cli) = opts.securityPolicyURI
                    /\ SecurityMode(cli) = opts.securityMode
           /\ (opts.securityPolicyURI = SecurityPolicyURIBestAvailable
                  /\ opts.localCertificate = <<>>)
                 => /\ SecurityPolicyURI(cli) = SecurityPolicyURINone
                    /\ SecurityMode(cli) = MessageSecurityModeNone
           /\ \A n \in 1..Len(calls) :
                 (calls[n].op = "Close" /\ calls[n].answer = "CloseSessionResponse")
                    => /\ calls[n].returned
                       /\ calls[n].err = Nil
                       /\ calls[n].channelClosed
           /\ (Len(calls) > 0 /\ calls[Len(calls)].answer = "CloseSessionResponse")
                 => channel.state = "closed"

\* Basic256 with mode Sign was asked for and obtained, and the client closed
C19_Witness ==
    /\ DialSucceeded
    /\ opts.securityPolicyURI = SecurityPolicyURIBasic256
    /\ opts.securityMode = MessageSecurityModeSign
    /\ SecurityPolicyURI(cli) = SecurityPolicyURIBasic256
    /\ SecurityMode(cli) = MessageSecurityModeSign
    /\ Len(calls) = 1
    /\ calls[1].returned /\ calls[1].err = Nil
    /\ channel.state = "closed"

\* C20: of the two results of the bootstrap Read each is applied on its own and
\* only when its status is Good: a Bad status of either does not make Dial fail,
\* the table of the other is stored in the channel, the table of a Bad result is
\* left as it was, and GetNamespaceURIs() returns the namespace list that was read.
C20_NamespaceBootstrap ==
    (OnWire("ReadResponse") /\ Len(readResponse) = 2)
        => /\ DialSucceeded
           /\ GetNamespaceURIs(channel) =
                 IF readResponse[1].good THEN readResponse[1].value
                 ELSE NoChannel.namespaceURIs
           /\ channel.serverURIs =
                 IF readResponse[2].good THEN readResponse[2].value
                 ELSE NoChannel.serverURIs

\* the server array was refused and the namespace array is in place
C20_Witness ==
    /\ DialSucceeded
    /\ Len(readResponse) = 2
    /\ readResponse[1].good /\ ~readResponse[2].good
    /\ GetNamespaceURIs(channel) = NamespaceArray
    /\ channel.serverURIs = <<>>

\* C24: when an option passed to Dial returns an error, Dial returns that error
\* and no client, and nothing has happened: GetEndpoints was not called, no channel
\* was created, no message went to the network and no step of the handshake ran.
C24_OptionErrorNoSideEffects ==
    (ret.returned /\ ret.err = "OptionError")
        => /\ ret.client = "nil"
           /\ steps = <<>>
           /\ wire = <<>>
           /\ channel = NoChannel
           /\ endpoints = <<>>
           /\ calls = <<>>

\* Dial has returned the error of an option
C24_Witness ==
    /\ pc = "Returned"
    /\ ret = Returned("nil", "OptionError")
    /\ channel.state = "nil"

\* the caller named a policy other than None and gave no certificate
PolicyWithoutCertificate ==
    /\ opts.securityPolicyURI \notin { SecurityPolicyURIBestAvailable, SecurityPolicyURINone }
    /\ opts.localCertificate = <<>>
    /\ pc # "Options"

\* C25 as stated: a policy other than None requested without a local certificate is
\* a configuration error: Dial returns an error to the caller and has had no side
\* effect, it has neither opened a secure channel to the selected endpoint nor
\* reached the steps of the handshake that sign.
C25_MissingCertificateIsConfigurationError ==
    PolicyWithoutCertificate
        => /\ channel.state = "nil"
           /\ ~StepDone("ChannelOpen")
           /\ ~StepDone("ClientSignature")
           /\ ret.returned => (ret.client = "nil" /\ ret.err # Nil)

\* call n of the teardown is a Close or CloseDeleteSubscriptions that has returned
ClosedBy(n) ==
    /\ n \in 1..Len(calls)
    /\ calls[n].op \in { "Close", "CloseDeleteSubscriptions" }
    /\ calls[n].returned

\* C21 as stated: teardown is idempotent: on a connected client whose first Close
\* was answered by the server and returned nil, a second Close that follows returns
\* nil too, and an Abort that follows returns nil.
C21_IdempotentTeardown ==
    \A n \in 1..Len(calls) :
        (n > 1 /\ ClosedBy(n - 1) /\ calls[n - 1].op = "Close" /\ calls[n - 1].err = Nil
               /\ calls[n].returned)
            => calls[n].err = Nil

\* the half of C21 that the code keeps: Abort after a Close returns nil
C21_AbortAfterCloseReturnsNil ==
    \A n \in 1..Len(calls) :
        (n > 1 /\ ClosedBy(n - 1) /\ calls[n].op = "Abort") => calls[n].err = Nil

\* C22: Close sends a CloseSessionRequest with deleteSubscriptions = true and
\* CloseDeleteSubscriptions one with the caller's value; either calls channel.Close
\* only once the CloseSessionResponse has arrived, so the channel is closed only when
\* a session close has been answered, and a call whose closeSession failed leaves
\* the channel as it was.
C22_CloseOrdering ==
    /\ \A n \in 1..Len(calls) :
          /\ calls[n].op = "Close" => calls[n].request.deleteSubscriptions = TRUE
          /\ calls[n].op = "CloseDeleteSubscriptions"
                => calls[n].request.deleteSubscriptions = calls[n].arg
          /\ calls[n].channelClosed
                => (calls[n].returned /\ calls[n].answer = "CloseSessionResponse"
                    /\ calls[n].err = Nil)
          /\ (calls[n].returned /\ calls[n].answer = "ServiceFault")
                => (~calls[n].channelClosed /\ calls[n].err # Nil)
    /\ channel.state = "closed"
          => \E n \in 1..Len(calls) :
                calls[n].answer = "CloseSessionResponse" /\ calls[n].channelClosed

\* CloseDeleteSubscriptions(ctx, false) was answered and closed the channel, after
\* a Close whose request timed out had left it open
C22_Witness ==
    /\ Len(calls) = 2
    /\ calls[1].op = "Close" /\ calls[1].err = "BadTimeout" /\ ~calls[1].channelClosed
    /\ calls[2].op = "CloseDeleteSubscriptions" /\ calls[2].arg = FALSE
    /\ calls[2].request.deleteSubscriptions = FALSE
    /\ calls[2].answer = "CloseSessionResponse" /\ calls[2].channelClosed
    /\ channel.state = "closed"

\* C23: Abort sends no CloseSessionRequest and no other service request: it only
\* aborts the channel, and it returns nil whatever the state of the client: on an
\* open channel, on a closed or aborted one, and while a Close waits for its answer.
C23_AbortSendsNothing ==
    \A n \in 1..Len(calls) :
        calls[n].op = "Abort"
            => /\ calls[n].request = <<>>
               /\ calls[n].answer = ""
               /\ calls[n].channelAborted
               /\ ~calls[n].channelClosed
               /\ calls[n].returned
               /\ calls[n].err = Nil
               /\ channel.state = "aborted"

\* Abort was called while a Close waited for the answer to its CloseSessionRequest
C23_Witness ==
    /\ Len(calls) = 2
    /\ calls[1].op = "Close" /\ ~calls[1].returned
    /\ calls[2].op = "Abort" /\ calls[2].returned /\ calls[2].err = Nil
    /\ channel.state = "aborted"
    /\ pc = "AwaitCloseSession"

\* C26 as stated: the plaintext and the ciphertext buffer taken from the pool for
\* the encryption of an identity token have been released on every path out of the
\* construction, the one where an RSA encryption returns an error included.
C26_BuffersReleasedOnEveryPath ==
    enc.kind = "built" => enc.out.buffers \in { "none", "reset" }

BadSessionNotActivated == "BadSessionNotActivated"

\* the requests that pass through Client.request during open
ClientRequests == { "CreateSessionRequest", "ActivateSessionRequest", "ReadRequest" }

\* the place of message m on the wire, 0 when it is not there
PlaceOf(m) == IF OnWire(m) THEN CHOOSE i \in 1..Len(wire) : wire[i] = m ELSE 0

C28_ClientNonceOnce ==
    /\ ~StepDone("CreateSession")
          => (localNonce = <<>> /\ createSessionRequest = NoCreateSessionRequest)
    /\ StepDone("CreateSession")
          => /\ Len(localNonce) = nonceLength
             /\ \E seed \in NonceSeeds : localNonce = getNextNonce(nonceLength, seed)
             /\ createSessionRequest.clientNonce = localNonce
             /\ Cardinality({ i \in 1..Len(steps) : steps[i] = "CreateSession" }) = 1
    /\ (StepDone("VerifyServerSignature") /\ VerifyScheme(cli.securityPolicyURI) # ""
           /\ openErr # BadApplicationSignatureInvalid)
          => createSessionResponse.serverSignature.signature.data
                = createSessionRequest.clientCertificate \o createSessionRequest.clientNonce

\* open went past the verification of a server signature on a secured channel
C28_Witness ==
    /\ StepDone("VerifyServerSignature")
    /\ cli.securityPolicyURI = SecurityPolicyURIBasic256Sha256
    /\ pc = "ClientSignature"
    /\ Len(localNonce) = nonceLength
    /\ createSessionRequest.clientNonce = localNonce
    /\ Len(createSessionResponse.serverSignature.signature.data) > nonceLength

\* the step whose request was in flight when the context was cancelled
CancelledStep ==
    CASE wire[Len(wire) - 1] = "CreateSessionRequest" -> "CreateSession"
      [] wire[Len(wire) - 1] = "ActivateSessionRequest" -> "ActivateSession"
      [] wire[Len(wire) - 1] = "ReadRequest" -> "Read"
      [] OTHER -> ""

LastBlockRemainder(P, w) ==
    IF Len(P) % w = 0 THEN SubSeq(P, Len(P) - w + 1, Len(P))
    ELSE SubSeq(P, Len(P) - (Len(P) % w) + 1, Len(P))

\* C30 as stated: the last block is not padded to full width: the input handed to
\* the RSA primitive for the last block is exactly the plaintext that remained, with
\* no bytes of the block before it and no fill bytes after it.
C30_LastBlockExactlyRemainder ==
    EncEncrypted
        => LET blocks == enc.out.identityToken.data.cipher
               P == PlaintextOf(enc.ui.secret, enc.nonce)
               o == CASE enc.out.identityToken.encryptionAlgorithm = RsaV15KeyWrap
                            -> OverheadPkcs1v15
                      [] enc.out.identityToken.encryptionAlgorithm = RsaOaepKeyWrap
                            -> OverheadOaepSha1
                      [] OTHER -> OverheadOaepSha256
           IN  blocks[Len(blocks)].pt = LastBlockRemainder(P, enc.publickey.size - o)

\* two blocks were made and the plaintext did not fill the second
TwoBlocksShortLast ==
    /\ EncEncrypted
    /\ Len(enc.out.identityToken.data.cipher) = 2
    /\ enc.publickey.size = 128
    /\ enc.out.identityToken.encryptionAlgorithm = RsaV15KeyWrap
    /\ Len(enc.ui.secret) = MaxSecretLen
    /\ Len(enc.nonce) = 32

\* the overhead o of the padding named by the encryptionAlgorithm of a token
OverheadOfAlgorithm(algorithm) ==
    CASE algorithm = RsaV15KeyWrap -> OverheadPkcs1v15
      [] algorithm = RsaOaepKeyWrap -> OverheadOaepSha1
      [] algorithm = RsaOaepSha256KeyWrap -> OverheadOaepSha256

\* the i-th piece of P when P is cut every w bytes
Piece(P, w, i) == SubSeq(P, (i - 1) * w + 1, Min(i * w, Len(P)))

\* C31: for a plaintext of L bytes, key size k and overhead o, the token body is
\* made of exactly ceil(L / (k - o)) ciphertext blocks of k bytes each, the i-th
\* of them encrypting the i-th piece of the plaintext; when L is a multiple of
\* k - o no block follows the one that took the last piece, and the loop ends.
C31_BlockCountAndOrder ==
    EncEncrypted
        => LET blocks == enc.out.identityToken.data.cipher
               P == PlaintextOf(enc.ui.secret, enc.nonce)
               k == enc.publickey.size
               w == k - OverheadOfAlgorithm(enc.out.identityToken.encryptionAlgorithm)
           IN  /\ Len(P) >= 4
               /\ Len(blocks) * w >= Len(P)
               /\ (Len(blocks) - 1) * w < Len(P)
               /\ \A i \in 1..Len(blocks) :
                     /\ blocks[i].size = k
                     /\ Len(Piece(P, w, i)) > 0
                     /\ SubSeq(blocks[i].pt, 1, Len(Piece(P, w, i))) = Piece(P, w, i)
               /\ enc.out.buffers = "reset"

\* a plaintext of exactly two full pieces: 124 bytes under OAEP with SHA-256 and a 1024-bit key
C31_Witness ==
    /\ EncEncrypted
    /\ enc.out.identityToken.encryptionAlgorithm = RsaOaepSha256KeyWrap
    /\ enc.publickey.size = 128
    /\ 4 + Len(enc.ui.secret) + Len(enc.nonce) = 2 * (128 - OverheadOaepSha256)
    /\ Len(enc.out.identityToken.data.cipher) = 2

\* the four values of the CreateSessionResponse are in the client and the channel
ResponseValuesStored ==
    /\ createSessionResponse.sessionID # ""
    /\ cli.sessionID = createSessionResponse.sessionID
    /\ channel.authenticationToken = createSessionResponse.authenticationToken
    /\ channel.authenticationToken # NoChannel.authenticationToken
    /\ cli.sessionTimeout = createSessionResponse.revisedSessionTimeout
    /\ cli.sessionTimeout # NewClient.sessionTimeout
    /\ channel.maxRequestMessageSize = createSessionResponse.maxRequestMessageSize
    /\ channel.maxRequestMessageSize # NoChannel.maxRequestMessageSize

\* C32: the session id, the authentication token, the revised session timeout and
\* maxRequestMessageSize of a CreateSessionResponse are in the client and the
\* channel before the server certificate and the server signature are checked, and
\* they are still there when open has failed with BadCertificateInvalid or
\* BadApplicationSignatureInvalid, when the channel is aborted and after Dial returned.
C32_ResponseStoredBeforeChecks ==
    /\ (pc \in { "CheckCertificate", "VerifySignature" })
          => ResponseValuesStored /\ ~StepDone("VerifyServerSignature")
    /\ pc = "CheckCertificate" => ~StepDone("CheckServerCertificate")
    /\ (pc \in { "OpenFailed", "Returned" }
          /\ openErr \in { BadCertificateInvalid, BadApplicationSignatureInvalid })
          => /\ ResponseValuesStored
             /\ pc = "Returned" => channel.state = "aborted" /\ DialFailedWith(openErr)

C32_Witness ==
    /\ DialFailedWith(BadApplicationSignatureInvalid)
    /\ channel.state = "aborted"
    /\ cli.sessionID = "session-1"
    /\ channel.authenticationToken = "token-1"
    /\ cli.sessionTimeout = 60000
    /\ channel.maxRequestMessageSize = 65536

\* C33: under channel policy None the server signature is not verified: whatever
\* the ServerSignature of the CreateSessionResponse holds, once the server
\* certificate matched the endpoint's the handshake goes on to the ActivateSession
\* step; open never fails with BadApplicationSignatureInvalid, and the
\* ActivateSessionRequest is sent unless the identity token could not be built.
C33_NoneSkipsServerSignature ==
    (/\ ResponseReceived
     /\ cli.securityPolicyURI = SecurityPolicyURINone
     /\ createSessionResponse.serverCertificate = cli.serverCertificate
     /\ pc \notin { "CheckCertificate", "VerifySignature" })
        => /\ StepDone("VerifyServerSignature")
           /\ openErr \in { Nil } \cup StepErrors("BuildIdentityToken")
                             \cup StepErrors("ActivateSession") \cup StepErrors("Read")
           /\ pc # "ClientSignature" => StepDone("ClientSignature")
           /\ (pc \notin { "ClientSignature", "IdentityToken", "ActivateSession" }
                 /\ openErr \notin StepErrors("BuildIdentityToken"))
                 => OnWire("ActivateSessionRequest")

\* a signature made by someone else over nothing, and the session is activated all the same
C33_Witness ==
    /\ cli.securityPolicyURI = SecurityPolicyURINone
    /\ createSessionResponse.serverSignature.signature
          = RsaSign("foreign", SchemeSha256Pkcs1v15, <<>>)
    /\ OnWire("ActivateSessionResponse")

\* the five recognized policies under which a secret is encrypted
EncryptingPolicyURIs == RecognizedPolicyURIs \ { SecurityPolicyURINone }

\* the token construction ran for a UserName or Issued identity whose effective
\* token policy is one of the five, on a channel that holds no remote public key
SecretWithoutServerKey ==
    /\ StepDone("BuildIdentityToken")
    /\ cli.userIdentity.type \in { "UserName", "Issued" }
    /\ MatchingPolicies # {}
    /\ EffectivePolicyURI(FirstMatchingPolicy, cli.securityPolicyURI) \in EncryptingPolicyURIs
    /\ channel.remotePublicKey = NoKey

\* C34: when the effective token policy is one of the five encrypting policies and
\* the channel holds no remote public key, the construction of a UserName or Issued
\* token fails with BadIdentityTokenRejected before a buffer is taken from the pool,
\* no ActivateSessionRequest is sent, and no token with the secret in the clear is
\* built, saved or sent in its place.
C34_NoServerKeyNoToken ==
    SecretWithoutServerKey
        => /\ tokenResult = TokenError(BadIdentityTokenRejected, "none")
           /\ openErr = BadIdentityTokenRejected
           /\ pc \in { "OpenFailed", "Returned" }
           /\ ~OnWire("ActivateSessionRequest")
           /\ activateSessionRequest = NoActivateSessionRequest
           /\ cli.identityToken = NoToken
           /\ ret.returned => DialFailedWith(BadIdentityTokenRejected)

C34_Witness ==
    /\ SecretWithoutServerKey
    /\ cli.userIdentity.type = "UserName"
    /\ FirstMatchingPolicy.securityPolicyURI = SecurityPolicyURIAes256Sha256RsaPss
    /\ cli.securityPolicyURI = SecurityPolicyURINone
    /\ DialFailedWith(BadIdentityTokenRejected)

\* C35: the user-token policy is looked at only after the session was created:
\* whenever Dial fails with BadIdentityTokenRejected, a CreateSessionRequest was sent
\* and answered with a response, the session id of that response is in the client,
\* and nothing was sent after that response: no ActivateSessionRequest and no
\* CloseSessionRequest; the channel is aborted and the session is left to the server.
C35_TokenRejectedAfterSessionCreated ==
    (openErr = BadIdentityTokenRejected \/ ret.err = BadIdentityTokenRejected)
        => /\ wire = << "GetEndpointsRequest", "GetEndpointsResponse",
                        "CreateSessionRequest", "CreateSessionResponse" >>
           /\ steps[Len(steps)] = "BuildIdentityToken"
           /\ cli.sessionID = createSessionResponse.sessionID
           /\ cli.sessionID # ""
           /\ calls = <<>>
           /\ ret.returned
                 => /\ DialFailedWith(BadIdentityTokenRejected)
                    /\ channel.state = "aborted"

C35_Witness ==
    /\ DialFailedWith(BadIdentityTokenRejected)
    /\ cli.userIdentity.type = "X509"
    /\ MatchingPolicies = {}
    /\ cli.sessionID = "session-1"
    /\ channel.state = "aborted"
    /\ wire[Len(wire)] = "CreateSessionResponse"

\* C36: a Close or CloseDeleteSubscriptions whose CloseSession request failed
\* returns the error of that request and calls neither channel.Close nor
\* channel.Abort; a call that returned has closed the channel exactly when its
\* closeSession succeeded; and as long as every call that returned has failed and
\* Abort was not called, the channel of the client Dial returned is still open.
C36_FailedCloseLeavesChannelOpen ==
    /\ \A n \in 1..Len(calls) :
          ClosedBy(n)
              => /\ calls[n].answer = "ServiceFault"
                    => /\ calls[n].err \in { "BadTimeout", "BadConnectionClosed" }
                       /\ ~calls[n].channelClosed
                       /\ ~calls[n].channelAborted
                 /\ calls[n].channelClosed <=> calls[n].err = Nil
                 /\ calls[n].err = Nil <=> calls[n].answer = "CloseSessionResponse"
    /\ (/\ ret.client = "cli"
        /\ \A n \in 1..Len(calls) :
              /\ calls[n].op # "Abort"
              /\ calls[n].returned => calls[n].err # Nil)
          => channel.state = "open"

\* a CloseDeleteSubscriptions that timed out left the channel to the Abort after it
C36_Witness ==
    /\ Len(calls) = 2
    /\ calls[1].op = "CloseDeleteSubscriptions" /\ calls[1].returned
    /\ calls[1].err = "BadTimeout"
    /\ ~calls[1].channelClosed /\ ~calls[1].channelAborted
    /\ calls[2] = AbortCall
    /\ channel.state = "aborted"

\* C37: the bootstrap Read is fatal at request level only: when the Read request
\* itself fails, the session has been activated, open returns the error of the
\* request and Dial aborts the channel and returns that error with no client; when
\* the response holds another number of results than two, neither the namespace
\* table nor the server table is set and Dial returns the client.
C37_ReadFatalAtRequestLevelOnly ==
    /\ (openErr = "BadTimeout:Read" \/ ret.err = "BadTimeout:Read")
          => /\ OnWire("ActivateSessionResponse")
             /\ wire[Len(wire)] = "ServiceFault"
             /\ channel.namespaceURIs = NoChannel.namespaceURIs
             /\ channel.serverURIs = NoChannel.serverURIs
             /\ pc \in { "OpenFailed", "Returned" }
             /\ ret.returned
                   => DialFailedWith("BadTimeout:Read") /\ channel.state = "aborted"
    /\ (OnWire("ReadResponse") /\ Len(readResponse) # 2)
          => /\ DialSucceeded
             /\ channel.state = "open"
             /\ channel.namespaceURIs = NoChannel.namespaceURIs
             /\ channel.serverURIs = NoChannel.serverURIs

\* three Good results, and the client is returned with both tables empty
C37_Witness ==
    /\ DialSucceeded
    /\ Len(readResponse) = 3
    /\ readResponse[1].good /\ readResponse[2].good
    /\ channel.namespaceURIs = <<>>
    /\ channel.serverURIs = <<>>

\* the Read request failed on an active session and the channel was aborted
C37_WitnessRequestFailed ==
    /\ DialFailedWith("BadTimeout:Read")
    /\ OnWire("ActivateSessionResponse")
    /\ channel.state = "aborted"

\* the client carries the policy and the mode of one endpoint of the response,
\* and that policy is one of the six
SecurityOfOneEndpoint ==
    /\ SecurityPolicyURI(cli) \in RecognizedPolicyURIs
    /\ SecurityPolicyURI(cli) # SecurityPolicyURIBestAvailable
    /\ SecurityPolicyURI(cli) # SecurityPolicyURIOther
    /\ \E i \in 1..Len(endpoints) : Carries(cli, endpoints[i])

\* C38: in every state after the endpoint selection has succeeded, the client's
\* securityPolicyURI is one of the six recognized URIs, never the BestAvailable
\* sentinel and never a URI outside the six, and its securityMode is the mode of the
\* same endpoint; no later step of Dial, open or Close changes either of them.
C38_SecurityFixedAfterSelection ==
    /\ [](EndpointSelected => SecurityOfOneEndpoint)
    /\ [][EndpointSelected
             => /\ SecurityPolicyURI(cli') = SecurityPolicyURI(cli)
                /\ SecurityMode(cli') = SecurityMode(cli)]_vars

\* any policy was asked for with a certificate; the server lists an endpoint of an
\* unrecognized policy at the lowest level; None was taken and kept through Close
C38_Witness ==
    /\ EndpointSelected
    /\ opts.securityPolicyURI = SecurityPolicyURIBestAvailable
    /\ opts.securityMode = MessageSecurityModeInvalid
    /\ opts.localCertificate # <<>>
    /\ \E i \in 1..Len(endpoints) :
          /\ endpoints[i].securityPolicyURI = SecurityPolicyURIOther
          /\ endpoints[i].securityLevel = 0
    /\ SecurityPolicyURI(cli) = SecurityPolicyURINone
    /\ SecurityMode(cli) = MessageSecurityModeNone
    /\ Len(calls) = 1 /\ calls[1].returned

\* the discovery response holds an endpoint with policy None and mode None
OffersUnsecured ==
    \E i \in 1..Len(endpoints) :
        /\ endpoints[i].securityPolicyURI = SecurityPolicyURINone
        /\ endpoints[i].securityMode = MessageSecurityModeNone

\* C39: without a local certificate and with the policy BestAvailable, Dial never
\* selects an endpoint whose policy is not None or whose mode is not None, whatever
\* mode was asked for: when the discovery response holds no endpoint with policy
\* None and mode None, Dial returns BadSecurityModeRejected, no channel is created
\* and nothing but the discovery exchange went to the network.
C39_NoSecuredChannelWithoutCertificate ==
    (/\ StepDone("SelectEndpoint")
     /\ opts.localCertificate = <<>>
     /\ opts.securityPolicyURI = SecurityPolicyURIBestAvailable)
        => /\ EndpointSelected
                 => /\ OffersUnsecured
                    /\ SecurityPolicyURI(cli) = SecurityPolicyURINone
                    /\ SecurityMode(cli) = MessageSecurityModeNone
                    /\ channel.securityPolicyURI = SecurityPolicyURINone
                    /\ channel.securityMode = MessageSecurityModeNone
           /\ ~OffersUnsecured
                 => /\ ret = Returned("nil", BadSecurityModeRejected)
                    /\ channel = NoChannel
                    /\ wire = << "GetEndpointsRequest", "GetEndpointsResponse" >>

\* SignAndEncrypt was asked for, the server has five endpoints, none of them None/None
C39_Witness ==
    /\ StepDone("SelectEndpoint")
    /\ opts.localCertificate = <<>>
    /\ opts.securityPolicyURI = SecurityPolicyURIBestAvailable
    /\ opts.securityMode = MessageSecurityModeSignAndEncrypt
    /\ Len(endpoints) = 5
    /\ ~OffersUnsecured
    /\ DialFailedWith(BadSecurityModeRejected)
    /\ channel = NoChannel

====
